---- MODULE Spec2Model ----
(***************************************************************************)
(* A model of the sandboxing substrate of bandsocks: the in-memory virtual *)
(* filesystem (src/src/filesystem/vfs.rs), the IPC buffer codec             *)
(* (src/sand/src/protocol.rs), the remote trampoline                       *)
(* (src/sand/src/remote/trampoline.rs), the seccomp policies                *)
(* (src/sand/src/seccomp.rs) and the task loop with its system call         *)
(* emulator (src/sand/src/process).  Each component has its own             *)
(* specification; the variables of the other components stay unchanged      *)
(* under it.                                                                *)
(***************************************************************************)
EXTENDS Integers, Sequences, FiniteSets, TLC

VARIABLES
    fs,         \* Filesystem: [inodes : Seq(slot), root : INodeNum]
    made,       \* history: directory inode -> the parent alloc_child_directory created it under
    phase,      \* "load": the image loader drives the writer; "run": guests open paths
    ops,        \* number of writer calls made so far
    result,     \* the outcome of the last public VFS call
    clone,      \* a clone of the Filesystem, and the inodes it shares with fs
    buf,        \* IPCBuffer: [bytes, files, byte_offset, file_offset]
    io,         \* the outcome of the last IPCBuffer call
    pending,    \* history: the message pushed into an empty buffer and not yet popped
    guest,      \* the traced process: its register file, as the kernel holds it
    tramp,      \* the tracer's side of a stopped task and of Trampoline::syscall
    filter,     \* the outcome of the seccomp filter for the last system call entered
    tasks,      \* the tasks of the tracer, by VPid
    wire,       \* the messages under way: up to the host, down to the tasks
    host,       \* the IPC server: whether it runs, its process table
    stops,      \* number of seccomp stops handled so far
    mem,        \* the address space of a stopped guest, and the trampoline's calls on it
    act,        \* the seccomp state of the process: its filters, the calls of activate
    sock        \* the stub's Socket, the SIGIO flag and the bytes the host has written

vfsVars == <<fs, made, phase, ops, result, clone>>
ipcVars == <<buf, io, pending>>
trampVars == <<guest, tramp>>
seccompVars == <<filter>>
\* the components added to the first three
taskVars == <<tasks, wire, host, stops>>
sandVars == <<seccompVars, taskVars>>
\* the components of the stub added to those
stubVars == <<mem, act, sock>>
vars == <<vfsVars, ipcVars, trampVars, sandVars, stubVars>>

-----------------------------------------------------------------------------
(* Bounds of the model *)

\* the inode table holds at most this many slots
MaxInodes == 4
\* the image loader makes at most this many writer calls
MaxOps == 2
\* longest path (in components after an optional leading "/") handed to a call
MaxPathLen == 2

-----------------------------------------------------------------------------
(* Program constants *)

\* Limits::reset
PathSegmentLimit == 1000
SymbolicLinkLimit == 50
\* u64::MAX, the largest value Stat.nlink holds, scaled to the widest integer
\* the checker's arithmetic holds.  nlink is only compared with it and
\* incremented below it, so the scaling changes no branch of the code.
U64_MAX == 2147483647

-----------------------------------------------------------------------------
(* Values *)

Names == {"a", "b"}

\* A path is the sequence of components Path::iter() yields: "/" can only be
\* the first component, ".." and normal names can appear anywhere.  Path::iter
\* drops every "." but a leading one.
RECURSIVE TailsOfLen(_)
TailsOfLen(n) ==
    IF n = 0 THEN {<<>>}
    ELSE {<<c>> \o t : c \in Names \cup {".."}, t \in TailsOfLen(n - 1)}

RelPaths == UNION {TailsOfLen(n) : n \in 0..MaxPathLen}

\* "/a/../a/../ ... " : more components than one walk may look up
LongPath ==
    [i \in 1..(PathSegmentLimit + 3) |->
        IF i = 1 THEN "/" ELSE IF i % 2 = 0 THEN "a" ELSE ".."]

Paths ==
    RelPaths \cup {<<"/">> \o p : p \in {q \in RelPaths : Len(q) <= 1}} \cup {<<".">>}

\* where the loader puts symbolic links, hard links and special files
EntryPaths == {<<"a">>, <<"b">>, <<"a", "b">>}

\* where the loader puts files: the same places, paths without a parent or
\* without a file name, and the long path
FilePaths == EntryPaths \cup {<<>>, <<"/">>, <<"..">>, <<"..", "a">>, LongPath}

\* symbolic link targets and hard link sources
Targets == {<<"/", "a">>, <<"/", "b">>, <<"a">>}

Keys == {"K"}

StatDefault == [mode |-> 0, uid |-> 0, gid |-> 0, mtime |-> 0, nlink |-> 0, size |-> 0]

\* caller-supplied Stat values
Stats == {[StatDefault EXCEPT !.mode = 420, !.nlink = n] : n \in {0, U64_MAX}}

NoInode == [none |-> TRUE]

NoEntry == [parent |-> -1, child |-> -1]

-----------------------------------------------------------------------------
(* Limits *)

Limits_reset == [path_segment |-> PathSegmentLimit,
                 symbolic_link |-> SymbolicLinkLimit,
                 refused |-> "none"]

\* the budget is threaded through the walk like the code's &mut Limits;
\* refused is history: which take_* call, if any, found its counter at zero
\* take_path_segment reporting an exhausted budget as a missing entry
take_path_segment_not_found(limits) ==
    IF limits.path_segment > 0
    THEN [err |-> "Ok", limits |-> [limits EXCEPT !.path_segment = @ - 1]]
    ELSE [err |-> "NotFound",
          limits |-> [limits EXCEPT !.refused = "path_segment"]]

take_path_segment(limits) ==
    IF limits.path_segment > 0
    THEN [err |-> "Ok", limits |-> [limits EXCEPT !.path_segment = @ - 1]]
    ELSE [err |-> "PathSegmentLimitExceeded",
          limits |-> [limits EXCEPT !.refused = "path_segment"]]

\* take_symbolic_link refusing the last dereference of the budget
take_symbolic_link_early(limits) ==
    IF limits.symbolic_link > 1
    THEN [err |-> "Ok", limits |-> [limits EXCEPT !.symbolic_link = @ - 1]]
    ELSE [err |-> "SymbolicLinkLimitExceeded",
          limits |-> [limits EXCEPT !.refused = "symbolic_link"]]

take_symbolic_link(limits) ==
    IF limits.symbolic_link > 0
    THEN [err |-> "Ok", limits |-> [limits EXCEPT !.symbolic_link = @ - 1]]
    ELSE [err |-> "SymbolicLinkLimitExceeded",
          limits |-> [limits EXCEPT !.refused = "symbolic_link"]]

-----------------------------------------------------------------------------
(* Sequencing.  Then(v, F) is F(v) with v computed once, before F's body   *)
(* runs: the code's `let v = ...;`.                                         *)

Then(v, F(_)) == CHOOSE y \in {F(x) : x \in {v}} : TRUE

-----------------------------------------------------------------------------
(* Filesystem: the read side *)

\* results of the walk: the error (or "Ok"), the budget left, the entry found
WalkOk(limits, entry) == [err |-> "Ok", limits |-> limits, entry |-> entry]
WalkErr(e, limits) == [err |-> e, limits |-> limits, entry |-> NoEntry]

\* get_inode succeeds on a populated slot
IsAlloc(f, num) ==
    /\ num >= 0
    /\ num < Len(f.inodes)
    /\ f.inodes[num + 1] # NoInode

get_inode(f, num) == f.inodes[num + 1]

IsKind(f, num, kind) == IsAlloc(f, num) /\ get_inode(f, num).data.kind = kind

\* resolve_path_segment looking "/" up like any other name
resolve_path_segment_no_root(f, limits, parent, part) ==
    Then(take_path_segment(limits), LAMBDA t :
    IF t.err # "Ok" THEN WalkErr(t.err, t.limits)
    ELSE IF ~IsAlloc(f, parent) THEN WalkErr("UnallocNode", t.limits)
    ELSE LET data == get_inode(f, parent).data IN
         IF data.kind = "Directory"
         THEN IF part \in DOMAIN data.map
              THEN WalkOk(t.limits, [parent |-> parent, child |-> data.map[part]])
              ELSE WalkErr("NotFound", t.limits)
         ELSE WalkErr("DirectoryExpected", t.limits))

resolve_path_segment(f, limits, parent, part) ==
    Then(take_path_segment(limits), LAMBDA t :
    IF t.err # "Ok" THEN WalkErr(t.err, t.limits)
    ELSE IF part = "/" THEN WalkOk(t.limits, [parent |-> f.root, child |-> f.root])
    ELSE IF ~IsAlloc(f, parent) THEN WalkErr("UnallocNode", t.limits)
    ELSE LET data == get_inode(f, parent).data IN
         IF data.kind = "Directory"
         THEN IF part \in DOMAIN data.map
              THEN WalkOk(t.limits, [parent |-> parent, child |-> data.map[part]])
              ELSE WalkErr("NotFound", t.limits)
         ELSE WalkErr("DirectoryExpected", t.limits))

-----------------------------------------------------------------------------
(* std::path::Path, as the writer uses it *)

NoPath == <<"<none>">>

\* Path::parent: None for the empty path and for a path ending in the root
PathParent(path) ==
    IF path = <<>> \/ path[Len(path)] = "/" THEN NoPath
    ELSE SubSeq(path, 1, Len(path) - 1)

\* Path::file_name: the last component when it is a normal name
FileName(path) ==
    IF path # <<>> /\ path[Len(path)] \in Names THEN path[Len(path)] ELSE "<none>"

-----------------------------------------------------------------------------
(* VFSWriter.  w is the filesystem under the writer, [inodes, root], with    *)
(* the history field made.  The writer's workdir is the root (writer()).     *)
(* A slot of the table holds an Arc<INode>: w.shared is the set of slots     *)
(* whose Arc a clone of the filesystem holds too, w.twin is the table as     *)
(* that clone sees it.                                                       *)

WOk(w) == [err |-> "Ok", w |-> w]
WErr(e, w) == [err |-> e, w |-> w]

alloc_inode_number(w) == [w EXCEPT !.inodes = Append(@, NoInode)]

\* asserts that the slot is empty: num always comes from alloc_inode_number
put_inode(w, num, inode) == [w EXCEPT !.inodes[num + 1] = inode]

put_directory(w, num) ==
    put_inode(w, num,
              [stat |-> [StatDefault EXCEPT !.mode = 493, !.nlink = 1],
               data |-> [kind |-> "Directory", map |-> [n \in {"."} |-> num]]])

\* get_inode_mut handing out the shared inode itself
get_inode_mut_in_place(w, num) == w

\* Arc::make_mut: an inode that a clone holds too is copied first, and the
\* slot of the writer's table then holds the copy
get_inode_mut(w, num) == [w EXCEPT !.shared = @ \ {num}]

\* an assignment through the reference get_inode_mut returned: it changes
\* the inode for every filesystem whose slot holds that Arc
store(w, num, inode) ==
    [w EXCEPT !.inodes[num + 1] = inode,
              !.twin = IF num \in w.shared THEN [@ EXCEPT ![num + 1] = inode] ELSE @]

\* inode_incref with a wrapping add in place of checked_add
inode_incref_wrapping(w, num) ==
    IF ~IsAlloc(w, num) THEN WErr("UnallocNode", w)
    ELSE Then(get_inode_mut(w, num), LAMBDA m :
         WOk(store(m, num, [get_inode(m, num) EXCEPT
                               !.stat.nlink = IF @ = U64_MAX THEN 0 ELSE @ + 1])))

inode_incref(w, num) ==
    IF ~IsAlloc(w, num) THEN WErr("UnallocNode", w)
    ELSE Then(get_inode_mut(w, num), LAMBDA m :
         IF get_inode(m, num).stat.nlink = U64_MAX THEN WErr("INodeRefCountError", m)
         ELSE WOk(store(m, num, [get_inode(m, num) EXCEPT !.stat.nlink = @ + 1])))

\* inode_decref giving the slot of an inode up when its count reaches zero
inode_decref_freeing(w, num) ==
    IF ~IsAlloc(w, num) THEN WErr("UnallocNode", w)
    ELSE Then(get_inode_mut(w, num), LAMBDA m :
         IF get_inode(m, num).stat.nlink = 0 THEN WErr("INodeRefCountError", m)
         ELSE IF get_inode(m, num).stat.nlink = 1 THEN WOk(store(m, num, NoInode))
         ELSE WOk(store(m, num, [get_inode(m, num) EXCEPT !.stat.nlink = @ - 1])))

inode_decref(w, num) ==
    IF ~IsAlloc(w, num) THEN WErr("UnallocNode", w)
    ELSE Then(get_inode_mut(w, num), LAMBDA m :
         IF get_inode(m, num).stat.nlink = 0 THEN WErr("INodeRefCountError", m)
         ELSE WOk(store(m, num, [get_inode(m, num) EXCEPT !.stat.nlink = @ - 1])))

\* BTreeMap::insert
MapInsert(map, name, value) ==
    [n \in DOMAIN map \cup {name} |-> IF n = name THEN value ELSE map[n]]

add_child_to_directory(w, parent, child_name, child_value) ==
    Then(inode_incref(w, child_value), LAMBDA a :
    IF a.err # "Ok" THEN a
    ELSE IF ~IsAlloc(a.w, parent) THEN WErr("UnallocNode", a.w)
    ELSE Then(get_inode_mut(a.w, parent), LAMBDA m :
         LET data == get_inode(m, parent).data IN
         IF data.kind # "Directory" THEN WErr("DirectoryExpected", m)
         ELSE Then(store(m, parent,
                         [get_inode(m, parent) EXCEPT
                             !.data.map = MapInsert(@, child_name, child_value)]),
                   LAMBDA w2 :
              IF child_name \in DOMAIN data.map
              THEN inode_decref(w2, data.map[child_name])
              ELSE WOk(w2))))

\* made records the parent the new directory is created under
NoteMade(w, num, parent) ==
    [w EXCEPT !.made = [n \in DOMAIN @ \cup {num} |-> IF n = num THEN parent ELSE @[n]]]

alloc_child_directory(w, parent, name) ==
    LET num == Len(w.inodes) IN
    Then(NoteMade(put_directory(alloc_inode_number(w), num), num, parent), LAMBDA w1 :
    Then(add_child_to_directory(w1, parent, name, num), LAMBDA a :
    IF a.err # "Ok" THEN [err |-> a.err, w |-> a.w, num |-> -1]
    ELSE Then(add_child_to_directory(a.w, num, "..", parent), LAMBDA b :
         IF b.err # "Ok" THEN [err |-> b.err, w |-> b.w, num |-> -1]
         ELSE [err |-> "Ok", w |-> b.w, num |-> num])))

\* results of the creating walk: as the walk's, with the writer's filesystem
CWalk(r, w) == [err |-> r.err, limits |-> r.limits, entry |-> r.entry, w |-> w]

resolve_or_create_path_segment(w, limits, parent, part) ==
    Then(resolve_path_segment(w, limits, parent, part), LAMBDA r :
    IF r.err = "NotFound"
    THEN Then(alloc_child_directory(w, parent, part), LAMBDA c :
         IF c.err # "Ok" THEN CWalk(WalkErr(c.err, r.limits), c.w)
         ELSE CWalk(WalkOk(r.limits, [parent |-> parent, child |-> c.num]), c.w))
    ELSE CWalk(r, w))

-----------------------------------------------------------------------------
(* The walk.  resolve_path, resolve_symlinks and resolve_or_create_path call *)
(* one another to a depth of up to a thousand; here their activations are a  *)
(* stack of frames and each step runs the code of the top frame up to its   *)
(* next call or return.  A configuration c holds the stack, the entry last  *)
(* returned, the budget, the first error (`?` returns it through every      *)
(* frame) and the filesystem w.                                             *)

\* an activation of resolve_path (create = FALSE) or resolve_or_create_path
\* (create = TRUE): i is the component the loop is at, pc the call it makes next
PathFrame(parent, path, create) ==
    [fn |-> "resolve_path", parent |-> parent, path |-> path, i |-> 1,
     pc |-> "segment", create |-> create]

\* an activation of resolve_symlinks, at the head of its while loop
SymFrame == [fn |-> "resolve_symlinks"]

Config(stack, w, limits, entry) ==
    [stack |-> stack, w |-> w, limits |-> limits, entry |-> entry, err |-> "Ok"]

Pop(c) == [c EXCEPT !.stack = SubSeq(@, 1, Len(@) - 1)]
Push(c, frame) == [c EXCEPT !.stack = Append(@, frame)]
SetTop(c, frame) == [c EXCEPT !.stack[Len(c.stack)] = frame]

\* one turn of the loop over the path's components: the lookup of component
\* fr.i, in the starting directory or in the entry the walk has reached
Segment(c, fr) ==
    LET dir == IF fr.i = 1 THEN fr.parent ELSE c.entry.child IN
    Then(IF fr.create
         THEN resolve_or_create_path_segment(c.w, c.limits, dir, fr.path[fr.i])
         ELSE CWalk(resolve_path_segment(c.w, c.limits, dir, fr.path[fr.i]), c.w),
         LAMBDA g :
    IF g.err # "Ok"
    THEN [c EXCEPT !.err = g.err, !.limits = g.limits, !.w = g.w]
    ELSE SetTop([c EXCEPT !.entry = g.entry, !.limits = g.limits, !.w = g.w],
                [fr EXCEPT !.i = @ + 1, !.pc = "symlinks"]))

\* resolve_path that never sends the entry through resolve_symlinks
StepPath_no_symlinks(c, fr) ==
    IF fr.path = <<>>
    THEN Pop([c EXCEPT !.entry = [parent |-> fr.parent, child |-> fr.parent]])
    ELSE IF fr.i > Len(fr.path) THEN Pop(c)
    ELSE Segment(c, fr)

\* resolve_path / resolve_or_create_path, from frame fr on.  Before every
\* component but the first the entry goes through resolve_symlinks, which
\* returns it as it is unless it names a symbolic link.
StepPath(c, fr) ==
    IF fr.path = <<>>
    THEN Pop([c EXCEPT !.entry = [parent |-> fr.parent, child |-> fr.parent]])
    ELSE IF fr.i > Len(fr.path) THEN Pop(c)
    ELSE IF fr.pc = "segment" THEN Segment(c, fr)
    ELSE IF ~IsAlloc(c.w, c.entry.child) THEN [c EXCEPT !.err = "UnallocNode"]
    ELSE IF get_inode(c.w, c.entry.child).data.kind = "SymbolicLink"
    THEN Push(SetTop(c, [fr EXCEPT !.pc = "segment"]), SymFrame)
    ELSE Segment(c, fr)

\* resolve_symlinks, at the head of its loop
StepSymlinks(c) ==
    IF ~IsAlloc(c.w, c.entry.child) THEN [c EXCEPT !.err = "UnallocNode"]
    ELSE LET data == get_inode(c.w, c.entry.child).data IN
         IF data.kind = "SymbolicLink"
         THEN Then(take_symbolic_link(c.limits), LAMBDA t :
              IF t.err # "Ok" THEN [c EXCEPT !.err = t.err, !.limits = t.limits]
              ELSE Push([c EXCEPT !.limits = t.limits],
                        PathFrame(c.entry.parent, data.path, FALSE)))
         ELSE Pop(c)

Halted(c) == c.err # "Ok" \/ c.stack = <<>>

Step(c) ==
    LET fr == c.stack[Len(c.stack)] IN
    IF fr.fn = "resolve_path" THEN StepPath(c, fr) ELSE StepSymlinks(c)

\* more steps than a walk can take: each lookup and each dereference uses up
\* budget, and a frame takes at most three more steps per lookup or dereference
StepBound == 4 * (PathSegmentLimit + SymbolicLinkLimit + 2)

\* Step, n times or until the walk has halted
RECURSIVE Run(_, _)
Run(n, c) ==
    IF n = 0 \/ Halted(c) THEN c
    ELSE IF n = 1 THEN Step(c)
    ELSE Then(Run(n \div 2, c), LAMBDA d : Run(n - (n \div 2), d))

\* what the outermost call returns
Returned(c) ==
    IF c.err # "Ok" THEN CWalk(WalkErr(c.err, c.limits), c.w)
    ELSE IF c.stack # <<>> THEN CWalk(WalkErr("<running>", c.limits), c.w)
    ELSE CWalk(WalkOk(c.limits, c.entry), c.w)

\* resolve_path sending the entry it ends with through resolve_symlinks too
resolve_path_following_tail(f, limits, parent, path) ==
    Then(Returned(Run(StepBound, Config(<<PathFrame(parent, path, FALSE)>>, f, limits, NoEntry))),
         LAMBDA r :
    IF r.err # "Ok" THEN r
    ELSE Returned(Run(StepBound, Config(<<SymFrame>>, f, r.limits, r.entry))))

resolve_path(f, limits, parent, path) ==
    Returned(Run(StepBound, Config(<<PathFrame(parent, path, FALSE)>>, f, limits, NoEntry)))

resolve_symlinks(f, limits, entry) ==
    Returned(Run(StepBound, Config(<<SymFrame>>, f, limits, entry)))

resolve_or_create_path(w, limits, parent, path) ==
    Returned(Run(StepBound, Config(<<PathFrame(parent, path, TRUE)>>, w, limits, NoEntry)))


\* open_at returning the entry resolve_path found, a symbolic link included
open_with_link_itself(f, limits0, path) ==
    Then(resolve_path(f, limits0, f.root, path), LAMBDA r :
    IF r.err # "Ok" THEN [err |-> r.err, limits |-> r.limits, inode |-> -1]
    ELSE [err |-> "Ok", limits |-> r.limits, inode |-> r.entry.child])

\* open_at with the budget it starts from as a parameter
open_with(f, limits0, path) ==
    Then(resolve_path(f, limits0, f.root, path), LAMBDA r :
    IF r.err # "Ok" THEN [err |-> r.err, limits |-> r.limits, inode |-> -1]
    ELSE Then(resolve_symlinks(f, r.limits, r.entry), LAMBDA s :
         IF s.err # "Ok" THEN [err |-> s.err, limits |-> s.limits, inode |-> -1]
         ELSE [err |-> "Ok", limits |-> s.limits, inode |-> s.entry.child]))

open_at(f, path) == open_with(f, Limits_reset, path)

open(f, path) == open_at(f, path)

is_directory(f, vfile) == IsKind(f, vfile, "Directory")

is_file(f, vfile) == IsKind(f, vfile, "NormalFile") \/ IsKind(f, vfile, "EmptyFile")

-----------------------------------------------------------------------------
(* VFSWriter: the public calls *)

\* the result: err, the directory and the name to write, the budget left, w
ParentRes(err, limits, w, dir, name) ==
    [err |-> err, limits |-> limits, w |-> w, dir |-> dir, name |-> name]

\* path.file_name() is looked at after the parent has been resolved or created
NameOr(path, err) == IF FileName(path) = "<none>" THEN "NotFound" ELSE err

resolve_or_create_parent(w, limits, path) ==
    IF PathParent(path) = NoPath
    THEN ParentRes(NameOr(path, "Ok"), limits, w, w.root, FileName(path))
    ELSE Then(resolve_or_create_path(w, limits, w.root, PathParent(path)), LAMBDA e :
         IF e.err # "Ok" THEN ParentRes(e.err, e.limits, e.w, -1, FileName(path))
         ELSE Then(resolve_symlinks(e.w, e.limits, e.entry), LAMBDA s :
              IF s.err # "Ok" THEN ParentRes(s.err, s.limits, e.w, -1, FileName(path))
              ELSE ParentRes(NameOr(path, "Ok"), s.limits, e.w, s.entry.child,
                             FileName(path))))

\* the outcome of a public writer call
Done(err, limits, w) == [err |-> err, limits |-> limits, w |-> w]

write_directory_metadata(w, path, stat) ==
    Then(resolve_or_create_path(w, Limits_reset, w.root, path), LAMBDA e :
    IF e.err # "Ok" THEN Done(e.err, e.limits, e.w)
    ELSE Then(resolve_symlinks(e.w, e.limits, e.entry), LAMBDA s :
         IF s.err # "Ok" THEN Done(s.err, s.limits, e.w)
         ELSE IF ~IsAlloc(e.w, s.entry.child) THEN Done("UnallocNode", s.limits, e.w)
         ELSE Then(get_inode_mut(e.w, s.entry.child), LAMBDA m :
              IF get_inode(m, s.entry.child).data.kind = "Directory"
              THEN Done("Ok", s.limits,
                        store(m, s.entry.child,
                              [get_inode(m, s.entry.child) EXCEPT !.stat = stat]))
              ELSE Done("DirectoryExpected", s.limits, m))))

\* the body the five entry-creating calls share: resolve or create the
\* parent, allocate an inode, store it with the caller's stat, link it
write_entry(w, path, stat, data) ==
    Then(resolve_or_create_parent(w, Limits_reset, path), LAMBDA p :
    IF p.err # "Ok" THEN Done(p.err, p.limits, p.w)
    ELSE LET num == Len(p.w.inodes) IN
         Then(put_inode(alloc_inode_number(p.w), num, [stat |-> stat, data |-> data]),
              LAMBDA w1 :
         Then(add_child_to_directory(w1, p.dir, p.name, num), LAMBDA a :
              Done(a.err, p.limits, a.w))))

NoKey == "<none>"

write_file(w, path, data, stat) ==
    write_entry(w, path, stat,
                IF data = NoKey THEN [kind |-> "EmptyFile"]
                ELSE [kind |-> "NormalFile", key |-> data])

write_symlink(w, path, link_to, stat) ==
    write_entry(w, path, stat, [kind |-> "SymbolicLink", path |-> link_to])

write_hardlink(w, path, link_to) ==
    Then(resolve_path(w, Limits_reset, w.root, link_to), LAMBDA r :
    IF r.err # "Ok" THEN Done(r.err, r.limits, w)
    ELSE Then(resolve_or_create_parent(w, r.limits, path), LAMBDA p :
         IF p.err # "Ok" THEN Done(p.err, p.limits, p.w)
         ELSE Then(add_child_to_directory(p.w, p.dir, p.name, r.entry.child), LAMBDA a :
              Done(a.err, p.limits, a.w))))

write_fifo(w, path, stat) == write_entry(w, path, stat, [kind |-> "Fifo"])

write_char_device(w, path, stat, major, minor) ==
    write_entry(w, path, stat, [kind |-> "Char", major |-> major, minor |-> minor])

write_block_device(w, path, stat, major, minor) ==
    write_entry(w, path, stat, [kind |-> "Block", major |-> major, minor |-> minor])

\* Filesystem::new
Filesystem_new ==
    put_directory([inodes |-> <<NoInode>>, root |-> 0, made |-> <<>>,
                   shared |-> {}, twin |-> <<>>], 0)

\* no clone of the filesystem exists
NoClone == [taken |-> FALSE, inodes |-> <<>>, root |-> 0, shared |-> {}, orig |-> <<>>]

-----------------------------------------------------------------------------
(* The filesystem as a state machine: the image loader calls the writer,    *)
(* then guests open paths.                                                  *)

InitVFS ==
    /\ fs = [inodes |-> Filesystem_new.inodes, root |-> Filesystem_new.root]
    /\ made = Filesystem_new.made
    /\ phase = "load"
    /\ ops = 0
    /\ result = [call |-> "none"]
    /\ clone = NoClone

Writer ==
    [inodes |-> fs.inodes, root |-> fs.root, made |-> made,
     shared |-> clone.shared, twin |-> clone.inodes]

\* a writer call returned r
\* the parent directories of the path do not exist: the path names an entry
\* in a directory other than the writer's, and the writer's directory has no
\* entry for the first component
MissingParents(f, path) ==
    /\ Len(path) >= 2
    /\ FileName(path) # "<none>"
    /\ path[1] \notin DOMAIN get_inode(f, f.root).data.map

\* a writer call with this path returned r; before is the size of the inode
\* table when it was made
Wrote(call, path, r) ==
    /\ Len(r.w.inodes) <= MaxInodes
    /\ fs' = [inodes |-> r.w.inodes, root |-> r.w.root]
    /\ made' = r.w.made
    /\ clone' = [clone EXCEPT !.inodes = r.w.twin, !.shared = r.w.shared]
    /\ ops' = ops + 1
    /\ result' = [call |-> call, err |-> r.err, refused |-> r.limits.refused,
                  path |-> path, before |-> Len(fs.inodes),
                  missing |-> MissingParents(fs, path)]
    /\ UNCHANGED <<phase, ipcVars, stubVars, trampVars, sandVars>>

Loading == phase = "load" /\ ops < MaxOps

\* #[derive(Clone)] on Filesystem: the clone has a table of its own, whose
\* slots hold the same Arcs
Clone ==
    /\ phase = "load"
    /\ ~clone.taken
    /\ clone' = [taken |-> TRUE, inodes |-> fs.inodes, root |-> fs.root,
                 shared |-> {num \in 0..(Len(fs.inodes) - 1) : IsAlloc(fs, num)},
                 orig |-> fs.inodes]
    /\ result' = [call |-> "clone"]
    /\ UNCHANGED <<fs, made, phase, ops, ipcVars, stubVars, trampVars, sandVars>>

WriteFile ==
    /\ Loading
    /\ \E path \in FilePaths, data \in Keys \cup {NoKey}, stat \in Stats :
          \E r \in {write_file(Writer, path, data, stat)} :
              Wrote("write_file", path, r)

WriteSymlink ==
    /\ Loading
    /\ \E path \in EntryPaths, link_to \in Targets, stat \in Stats :
          \E r \in {write_symlink(Writer, path, link_to, stat)} :
              Wrote("write_symlink", path, r)

WriteHardlink ==
    /\ Loading
    /\ \E path \in EntryPaths, link_to \in Targets :
          \E r \in {write_hardlink(Writer, path, link_to)} :
              Wrote("write_hardlink", path, r)

WriteDirectoryMetadata ==
    /\ Loading
    /\ \E path \in Paths, stat \in Stats :
          \E r \in {write_directory_metadata(Writer, path, stat)} :
              Wrote("write_directory_metadata", path, r)

WriteFifo ==
    /\ Loading
    /\ \E path \in EntryPaths, stat \in Stats :
          \E r \in {write_fifo(Writer, path, stat)} :
              Wrote("write_fifo", path, r)

WriteCharDevice ==
    /\ Loading
    /\ \E path \in EntryPaths, stat \in Stats :
          \E r \in {write_char_device(Writer, path, stat, 1, 3)} :
              Wrote("write_char_device", path, r)

WriteBlockDevice ==
    /\ Loading
    /\ \E path \in EntryPaths, stat \in Stats :
          \E r \in {write_block_device(Writer, path, stat, 8, 0)} :
              Wrote("write_block_device", path, r)

\* the image is loaded; the filesystem is handed to the runtime
FinishLoad ==
    /\ phase = "load"
    /\ phase' = "run"
    /\ ops' = 0
    /\ result' = [call |-> "none"]
    /\ UNCHANGED <<fs, made, clone, ipcVars, stubVars, trampVars, sandVars>>

\* open takes &self: the filesystem is the same before and after
Open ==
    /\ phase = "run"
    /\ \E path \in Paths \cup {LongPath} :
          \E r \in {open(fs, path)} :
              result' = [call |-> "open", path |-> path, err |-> r.err,
                         inode |-> r.inode, limits |-> r.limits,
                         refused |-> r.limits.refused]
    /\ phase' = "opened"
    /\ UNCHANGED <<fs, made, ops, clone, ipcVars, stubVars, trampVars, sandVars>>

-----------------------------------------------------------------------------
(* The content of a file: Filesystem::vfile_storage asks the FileStorage     *)
(* for the part a NormalFile names.                                          *)

NoFile == [from |-> "none", key |-> ""]

\* the host behind the call: the keys the FileStorage holds, whether its
\* reads succeed, whether /dev/null opens
StorageKeys == Keys \cup {"L"}

Storages == [keys : SUBSET StorageKeys, io_ok : BOOLEAN, dev_null : BOOLEAN]

\* FileStorage::open_part: Ok(Some(file)), Ok(None) for a missing key, Err
open_part(storage, k) ==
    IF ~storage.io_ok THEN [err |-> "Err", file |-> NoFile]
    ELSE IF k \in storage.keys THEN [err |-> "Ok", file |-> [from |-> "part", key |-> k]]
    ELSE [err |-> "Ok", file |-> NoFile]

\* the result, with the keys the storage was asked for
Content(err, file, asked) == [err |-> err, file |-> file, asked |-> asked]

\* vfile_storage reading every node as an empty file
vfile_storage_any_node(f, storage, vfile) ==
    IF storage.dev_null
    THEN Content("Ok", [from |-> "/dev/null", key |-> ""], {})
    ELSE Content("ImageStorageError", NoFile, {})

vfile_storage(f, storage, vfile) ==
    IF ~IsAlloc(f, vfile) THEN Content("NotFound", NoFile, {})
    ELSE LET data == get_inode(f, vfile).data IN
         IF data.kind = "EmptyFile"
         THEN IF storage.dev_null
              THEN Content("Ok", [from |-> "/dev/null", key |-> ""], {})
              ELSE Content("ImageStorageError", NoFile, {})
         ELSE IF data.kind = "NormalFile"
         THEN Then(open_part(storage, data.key), LAMBDA r :
              IF r.err = "Ok" /\ r.file # NoFile
              THEN Content("Ok", r.file, {data.key})
              ELSE Content("ImageStorageError", NoFile, {data.key}))
         ELSE Content("FileExpected", NoFile, {})

\* the host asks for the content of a VFile
VfileStorage ==
    /\ phase = "run"
    /\ \E vfile \in 0..(Len(fs.inodes) - 1), storage \in Storages :
          \E r \in {vfile_storage(fs, storage, vfile)} :
              result' = [call |-> "vfile_storage", inode |-> vfile, err |-> r.err,
                         file |-> r.file, asked |-> r.asked, storage |-> storage,
                         refused |-> "none"]
    /\ phase' = "opened"
    /\ UNCHANGED <<fs, made, ops, clone, ipcVars, stubVars, trampVars, sandVars>>

-----------------------------------------------------------------------------
(* The IPC buffer and its codec (sand/src/protocol.rs).  A message value is *)
(* described by the serializer method its Serialize impl calls: kind is     *)
(* that method, the other fields are what the impl hands over.               *)

\* capacities of the buffer: BytesMax, FilesMax
BytesMax == 128
FilesMax == 8
\* the descriptor the Deserialize impl of SysFd returns
StubFd == 999

\* the model pushes while the buffer holds fewer bytes, or files, than this
MaxBytes == 3
MaxFiles == 2

Bool(b) == [kind |-> "bool", bit |-> IF b THEN 1 ELSE 0]
U32(n) == [kind |-> "u32", v |-> n]
I32(n) == [kind |-> "i32", v |-> n]
Usize(n) == [kind |-> "u64", v |-> n]
Unit == [kind |-> "unit"]
OptionNone == [kind |-> "none"]
\* struct Name(inner), derived
Newtype(name, inner) == [kind |-> "newtype_struct", name |-> name, inner |-> inner]
\* SysFd serializes itself as a tuple struct named "fd@ser"
SysFd(n) == [kind |-> "tuple_struct", name |-> "SysFd", v |-> n]
Struct(name, fields) == [kind |-> "struct", name |-> name, fields |-> fields]
UnitVariant(name, index, variant) ==
    [kind |-> "unit_variant", name |-> name, index |-> index, variant |-> variant]
NewtypeVariant(name, index, variant, inner) ==
    [kind |-> "newtype_variant", name |-> name, index |-> index,
     variant |-> variant, inner |-> inner]
TupleVariant(name, index, variant, fields) ==
    [kind |-> "tuple_variant", name |-> name, index |-> index,
     variant |-> variant, fields |-> fields]
\* a fixed-size array serializes as a tuple
Array(elems) == [kind |-> "tuple", name |-> "array", elems |-> elems]

ResultOk(v) == NewtypeVariant("Result", 0, "Ok", v)
ResultErr(e) == NewtypeVariant("Result", 1, "Err", e)

VPid(n) == Newtype("VPid", U32(n))
SysPid(n) == Newtype("SysPid", U32(n))
Signal(n) == Newtype("Signal", U32(n))
Errno(n) == Newtype("Errno", I32(n))
VString(n) == Newtype("VString", Newtype("VPtr", Usize(n)))
SysAccess(dir, path, mode) == Struct("SysAccess", <<dir, VString(path), I32(mode)>>)

ToSand ==
    { UnitVariant("ToSand", 0, "OpenProcessReply"),
      NewtypeVariant("ToSand", 1, "SysOpenReply", ResultOk(SysFd(5))),
      NewtypeVariant("ToSand", 1, "SysOpenReply", ResultErr(Errno(-2))),
      NewtypeVariant("ToSand", 2, "SysAccessReply", ResultOk(Unit)),
      NewtypeVariant("ToSand", 3, "SysKillReply", ResultErr(Errno(-1))) }

FromSand ==
    { NewtypeVariant("FromSand", 0, "OpenProcess", SysPid(7)),
      NewtypeVariant("FromSand", 1, "SysAccess", SysAccess(OptionNone, 4096, 0)),
      TupleVariant("FromSand", 2, "SysOpen", <<SysAccess(OptionNone, 4096, 0), I32(0)>>),
      TupleVariant("FromSand", 3, "SysKill", <<VPid(2), Signal(9)>>) }

MessageToSand(task, op) == Struct("MessageToSand", <<VPid(task), op>>)
MessageFromSand(task, op) == Struct("MessageFromSand", <<VPid(task), op>>)

\* the messages of the wire protocol, their parts, and the values the file's
\* tests push
Messages ==
    {MessageToSand(1, op) : op \in ToSand}
        \cup {MessageFromSand(1, op) : op \in FromSand}
        \cup ToSand \cup FromSand
        \cup { ResultOk(SysFd(5)), ResultErr(Errno(-1)), SysFd(5),
               Array(<<SysFd(5), SysFd(6), SysFd(7), SysFd(8)>>),
               Bool(TRUE), Bool(FALSE), U32(305419896), VPid(1) }

\* the type a value is popped as
TypeOf(m) == IF "name" \in DOMAIN m THEN m.name ELSE m.kind

Types == {TypeOf(m) : m \in Messages}

NoValue == [kind |-> "<none>"]

IPCBuffer_new == [bytes |-> <<>>, files |-> <<>>, byte_offset |-> 0, file_offset |-> 0]

reset(b) == IPCBuffer_new

is_empty(b) == b.byte_offset = Len(b.bytes) /\ b.file_offset = Len(b.files)

BOk(b) == [err |-> "Ok", buf |-> b]
BErr(e, b) == [err |-> e, buf |-> b]

push_back_byte(b, data) ==
    IF Len(b.bytes) < BytesMax
    THEN BOk([b EXCEPT !.bytes = Append(@, data)])
    ELSE BErr("BufferFull", b)

\* heapless extend_from_slice: all of the data, or nothing and an error
extend_bytes(b, data) ==
    IF Len(b.bytes) + Len(data) <= BytesMax
    THEN BOk([b EXCEPT !.bytes = @ \o data])
    ELSE BErr("BufferFull", b)

push_back_file(b, file) ==
    IF Len(b.files) < FilesMax
    THEN BOk([b EXCEPT !.files = Append(@, file)])
    ELSE BErr("BufferFull", b)

\* the files not yet popped
front_files_all(b) == SubSeq(b.files, b.file_offset + 1, Len(b.files))

pop_front_file(b) ==
    IF 1 <= Len(front_files_all(b))
    THEN [err |-> "Ok", value |-> front_files_all(b)[1],
          buf |-> [b EXCEPT !.file_offset = @ + 1]]
    ELSE [err |-> "UnexpectedEnd", value |-> NoValue, buf |-> b]

\* message.serialize(&mut serializer): the impl calls the serializer method
\* of its kind.  serialize_bool pushes a byte; serialize_newtype_struct hands
\* the inner value on; serialize_newtype_variant pushes the variant index,
\* drops the outcome of that push, and hands the inner value on; every other
\* method returns Unimplemented.
RECURSIVE serialize(_, _)
serialize(b, m) ==
    IF m.kind = "bool" THEN push_back_byte(b, m.bit)
    ELSE IF m.kind = "newtype_struct" THEN serialize(b, m.inner)
    ELSE IF m.kind = "newtype_variant"
    THEN IF m.index < 256
         THEN serialize(push_back_byte(b, m.index).buf, m.inner)
         ELSE BErr("InvalidValue", b)
    ELSE BErr("Unimplemented", b)

push_back(b, message) == serialize(b, message)

\* T::deserialize(&mut deserializer): SysFd's impl reads nothing and returns
\* a fixed descriptor; every other impl calls a deserializer method, and each
\* of those returns Unimplemented
deserialize(b, ty) ==
    IF ty = "SysFd"
    THEN [err |-> "Ok", value |-> SysFd(StubFd), buf |-> b]
    ELSE [err |-> "Unimplemented", value |-> NoValue, buf |-> b]

pop_front(b, ty) == deserialize(b, ty)

InitIPC ==
    /\ buf = IPCBuffer_new
    /\ io = [op |-> "none"]
    /\ pending = NoValue

\* the slices of received bytes the model extends the buffer with: one byte,
\* all but one byte of the capacity, the whole capacity
ByteRuns == {[i \in 1..n |-> 0] : n \in {1, BytesMax - 1, BytesMax}}

\* the model pushes messages into a short buffer, and into one that has at
\* most one byte left
PushBack ==
    /\ Len(buf.bytes) < MaxBytes \/ Len(buf.bytes) + 1 >= BytesMax
    /\ \E message \in Messages :
          \E r \in {push_back(buf, message)} :
              /\ buf' = r.buf
              /\ io' = [op |-> "push_back", err |-> r.err, message |-> message,
                        bytes_before |-> Len(buf.bytes),
                        files_before |-> Len(buf.files)]
              /\ pending' = IF buf = IPCBuffer_new THEN message ELSE NoValue
    /\ UNCHANGED <<vfsVars, trampVars, stubVars, sandVars>>

PopFront ==
    /\ \E ty \in Types :
          \E r \in {pop_front(buf, ty)} :
              /\ buf' = r.buf
              /\ io' = [op |-> "pop_front", ty |-> ty, err |-> r.err,
                        value |-> r.value, pushed |-> pending]
    /\ pending' = NoValue
    /\ UNCHANGED <<vfsVars, trampVars, stubVars, sandVars>>

ExtendBytes ==
    /\ Len(buf.bytes) < MaxBytes
    /\ \E data \in ByteRuns :
          \E r \in {extend_bytes(buf, data)} :
              /\ buf' = r.buf
              /\ io' = [op |-> "extend_bytes", err |-> r.err]
    /\ pending' = NoValue
    /\ UNCHANGED <<vfsVars, trampVars, stubVars, sandVars>>

\* beyond MaxFiles the model goes on, up to the capacity and one push more,
\* with one descriptor and no bytes
PushBackFile ==
    /\ \E fd \in {5, 6} :
          /\ Len(buf.files) < MaxFiles \/ (fd = 5 /\ buf.bytes = <<>>)
          /\ \E r \in {push_back_file(buf, SysFd(fd))} :
                 /\ buf' = r.buf
                 /\ io' = [op |-> "push_back_file", err |-> r.err]
    /\ pending' = NoValue
    /\ UNCHANGED <<vfsVars, trampVars, stubVars, sandVars>>

PopFrontFile ==
    /\ \E r \in {pop_front_file(buf)} :
          /\ buf' = r.buf
          /\ io' = [op |-> "pop_front_file", err |-> r.err, value |-> r.value]
    /\ pending' = NoValue
    /\ UNCHANGED <<vfsVars, trampVars, stubVars, sandVars>>

Reset ==
    /\ buf # IPCBuffer_new
    /\ buf' = reset(buf)
    /\ io' = [op |-> "reset"]
    /\ pending' = NoValue
    /\ UNCHANGED <<vfsVars, trampVars, stubVars, sandVars>>

-----------------------------------------------------------------------------
(* The remote trampoline (sand/src/remote/trampoline.rs).  A register file  *)
(* is [ip, sp, ax, orig_ax, cx, args]; guest is the one the kernel holds    *)
(* for the traced process, which ptrace::get_regs reads and                 *)
(* ptrace::set_regs writes.                                                 *)

\* sc::nr, the system call numbers of x86_64
nr == [READ |-> 0, WRITE |-> 1, CLOSE |-> 3, BRK |-> 12, RT_SIGRETURN |-> 15,
       IOCTL |-> 16, PREAD64 |-> 17, PWRITE64 |-> 18, READV |-> 19,
       WRITEV |-> 20, ACCESS |-> 21, GETPID |-> 39, SENDFILE |-> 40,
       SENDMSG |-> 46, RECVMSG |-> 47, FORK |-> 57, EXECVE |-> 59,
       EXIT |-> 60, KILL |-> 62, UNAME |-> 63, FCNTL |-> 72, PTRACE |-> 101,
       GETPPID |-> 110, PRCTL |-> 157, ARCH_PRCTL |-> 158, EXIT_GROUP |-> 231,
       WAITID |-> 247, OPENAT |-> 257, GETRANDOM |-> 318,
       COPY_FILE_RANGE |-> 326, OPEN |-> 2, MMAP |-> 9, MUNMAP |-> 11,
       MREMAP |-> 25, STAT |-> 4, FSTAT |-> 5, LSTAT |-> 6, GETCWD |-> 79,
       CHDIR |-> 80, SYSINFO |-> 99, GETUID |-> 102, GETGID |-> 104,
       GETEUID |-> 107, GETEGID |-> 108, SETPGID |-> 109, GETPGRP |-> 111,
       GETPGID |-> 121, SET_TID_ADDRESS |-> 218, NEWFSTATAT |-> 262]

\* Trampoline::syscall is called at most this many times per stop
MaxCalls == 2

\* sc::nr::OPEN
fake_syscall_nr == 2
\* 0xffff_ffff_dddd_dddd_u64 as isize
fake_syscall_arg == -572662307
\* kernel_mem.vdso_syscall: where find_syscall found a syscall instruction
vdso_syscall == 28672

\* the register files a process can be stopped with at a seccomp trap
StopRegs ==
    {[ip |-> ip, sp |-> 20480, ax |-> -38, orig_ax |-> number, cx |-> ip, args |-> args] :
        ip \in {4096, 8192}, number \in {0, 59},
        args \in {<<0, 0, 0, 0, 0, 0>>, <<3, 1, 4, 1, 5, 9>>}}

\* what Trampoline::syscall is called with
CallNrs == {9, 11}
CallArgs == {<<>>, <<0, 4096>>}
\* what the kernel returns from the remote call
KernelRets == {0, -14, 4096}

TraceSysGood == "PTRACE_SIG_TRACESYSGOOD"
Seccomp == "PTRACE_SIG_SECCOMP"
Events == {TraceSysGood, Seccomp}

\* protocol::abi::Syscall
orig_nr_to_regs(number, regs) == [regs EXCEPT !.orig_ax = number]

nr_to_regs(number, regs) == [regs EXCEPT !.ax = number]

args_to_regs(args, regs) ==
    [regs EXCEPT !.args = [i \in 1..6 |-> IF i <= Len(args) THEN args[i] ELSE 0]]

from_regs(regs) == [nr |-> regs.orig_ax, args |-> regs.args]

ret_from_regs(regs) == regs.ax

\* the kernel runs the system call the registers name and stops the process
\* on the way out: the return value is in ax, cx may be overwritten
KernelSyscallExit(regs, ret, clobber) ==
    [regs EXCEPT !.ax = ret, !.cx = IF clobber THEN regs.ip ELSE @]

\* the kernel steps the process through the instruction at ip; when that is
\* a syscall instruction the process enters the kernel: the number moves from
\* ax to orig_ax, ax holds -ENOSYS
KernelSingleStep(regs, enters) ==
    IF enters THEN [regs EXCEPT !.orig_ax = regs.ax, !.ax = -38, !.cx = regs.ip + 2]
    ELSE [regs EXCEPT !.ip = @ + 2]

\* the registers syscall writes for the trip through the vdso
fake_regs(local_regs) ==
    args_to_regs([i \in 1..6 |-> fake_syscall_arg],
                 nr_to_regs(fake_syscall_nr,
                            [local_regs EXCEPT !.ip = vdso_syscall, !.sp = 0]))

\* the two assert_eq! on the stop after the single step, without the one on
\* the number
is_fake_syscall_args_only(info) == info.args = [i \in 1..6 |-> fake_syscall_arg]

\* the two assert_eq! on the stop after the single step: the decoded number
\* and the six arguments are those of the fake system call
is_fake_syscall(info) ==
    /\ info.nr = fake_syscall_nr
    /\ info.args = [i \in 1..6 |-> fake_syscall_arg]

\* the register file syscall restores before it returns
restore_local_regs(t) == t.local_regs

restore_regs(t) == t.regs

\* abi::EIO
EIO == 5

\* Result<usize, Errno> and Result<(), Errno>: Ok(v), Ok(()) with v = 0,
\* Err(Errno(v))
Ok(v) == [ok |-> TRUE, v |-> v]
Err(e) == [ok |-> FALSE, v |-> e]
NoOut == [ok |-> FALSE, v |-> 0]

\* the wrappers, from the result of the syscall they make
getrandom(res) == IF res >= 0 THEN Ok(res) ELSE Err(res)

getrandom_exact(length, res) ==
    Then(getrandom(res), LAMBDA r :
        IF ~r.ok THEN r
        ELSE IF r.v = length THEN Ok(0) ELSE Err(-EIO))

pread(res) == IF res >= 0 THEN Ok(res) ELSE Err(res)

\* pread_exact taking any transfer for the whole one
pread_exact_any_length(length, res) ==
    Then(pread(res), LAMBDA r : IF r.ok THEN Ok(0) ELSE r)

pread_exact(length, res) ==
    Then(pread(res), LAMBDA r :
        IF r.ok /\ r.v = length THEN Ok(0)
        ELSE IF r.ok THEN Err(-EIO)
        ELSE r)

pwrite(res) == IF res >= 0 THEN Ok(res) ELSE Err(res)

pwrite_exact(length, res) ==
    Then(pwrite(res), LAMBDA r :
        IF r.ok /\ r.v = length THEN Ok(0)
        ELSE IF r.ok THEN Err(-EIO)
        ELSE r)

ExactWrappers == {"pread_exact", "pwrite_exact", "getrandom_exact"}
\* the lengths the wrappers are called with
Lengths == {0, 4096}

\* the system call a wrapper makes: fd 3, address 8192, offset and flags 0
WrapperNr(wrapper) ==
    IF wrapper = "pread_exact" THEN nr.PREAD64
    ELSE IF wrapper = "pwrite_exact" THEN nr.PWRITE64
    ELSE nr.GETRANDOM

WrapperArgs(wrapper, length) ==
    IF wrapper = "getrandom_exact" THEN <<8192, length, 0>>
    ELSE <<3, 8192, length, 0>>

\* what the caller of Trampoline::syscall makes of its result
WrapperOut(wrapper, length, res) ==
    IF wrapper = "pread_exact" THEN pread_exact(length, res)
    ELSE IF wrapper = "pwrite_exact" THEN pwrite_exact(length, res)
    ELSE IF wrapper = "getrandom_exact" THEN getrandom_exact(length, res)
    ELSE NoOut

InitTrampoline ==
    /\ guest = [ip |-> 4096, sp |-> 20480, ax |-> 0, orig_ax |-> -1, cx |-> 0,
                args |-> <<0, 0, 0, 0, 0, 0>>]
    /\ tramp = [pc |-> "running", regs |-> guest, local_regs |-> guest,
                snapshot |-> guest, result |-> 0, calls |-> 0,
                wrapper |-> "syscall", length |-> 0, out |-> NoOut, seen |-> <<>>]

\* handle_seccomp_trap: as_stopped_task reads the registers of the stop
SeccompStop ==
    /\ tramp.pc = "running"
    /\ \E regs \in StopRegs :
          /\ guest' = regs
          /\ tramp' = [pc |-> "stopped", regs |-> regs, local_regs |-> regs,
                       snapshot |-> regs, result |-> 0, calls |-> 0,
                       wrapper |-> "syscall", length |-> 0, out |-> NoOut,
                       seen |-> <<>>]
    /\ UNCHANGED <<vfsVars, ipcVars, stubVars, sandVars>>

\* syscall, up to its first await: the call's registers are written to the
\* process, which is resumed to the system call's exit
SyscallEnter ==
    /\ tramp.pc \in {"stopped", "returned"}
    /\ tramp.calls < MaxCalls
    /\ \E number \in CallNrs, args \in CallArgs :
          \E local_regs \in {args_to_regs(args, orig_nr_to_regs(number, tramp.regs))} :
              /\ guest' = local_regs
              /\ tramp' = [tramp EXCEPT !.pc = "in_syscall",
                                        !.local_regs = local_regs,
                                        !.snapshot = tramp.regs,
                                        !.calls = @ + 1,
                                        !.wrapper = "syscall",
                                        !.length = 0,
                                        !.out = NoOut,
                                        !.seen = <<>>]
    /\ UNCHANGED <<vfsVars, ipcVars, stubVars, sandVars>>

\* pread_exact, pwrite_exact and getrandom_exact, up to the first await of
\* the syscall they make
ExactEnter ==
    /\ tramp.pc \in {"stopped", "returned"}
    /\ tramp.calls < MaxCalls
    /\ \E wrapper \in ExactWrappers, length \in Lengths :
          \E local_regs \in {args_to_regs(WrapperArgs(wrapper, length),
                                          orig_nr_to_regs(WrapperNr(wrapper), tramp.regs))} :
              /\ guest' = local_regs
              /\ tramp' = [tramp EXCEPT !.pc = "in_syscall",
                                        !.local_regs = local_regs,
                                        !.snapshot = tramp.regs,
                                        !.calls = @ + 1,
                                        !.wrapper = wrapper,
                                        !.length = length,
                                        !.out = NoOut,
                                        !.seen = <<>>]
    /\ UNCHANGED <<vfsVars, ipcVars, stubVars, sandVars>>

\* syscall, from the first event to its second await: the result is saved,
\* the registers of the trip through the vdso are written, the process is
\* single-stepped.  expect_event_or_panic panics on any other event.
SyscallExit ==
    /\ tramp.pc = "in_syscall"
    /\ \E ret \in KernelRets, clobber \in BOOLEAN, event \in Events :
          \E stopped \in {KernelSyscallExit(guest, ret, clobber)} :
              IF event # TraceSysGood
              THEN /\ guest' = stopped
                   /\ tramp' = [tramp EXCEPT !.pc = "panicked", !.seen = <<event>>]
              ELSE /\ guest' = fake_regs(stopped)
                   /\ tramp' = [tramp EXCEPT !.pc = "in_trampoline",
                                             !.seen = <<event>>,
                                             !.result = ret_from_regs(stopped),
                                             !.local_regs = fake_regs(stopped)]
    /\ UNCHANGED <<vfsVars, ipcVars, stubVars, sandVars>>

\* syscall, from the second event to its return: the stop must be the
\* seccomp trap of the fake system call; the saved registers are written back
TrampolineTrap ==
    /\ tramp.pc = "in_trampoline"
    /\ \E enters \in BOOLEAN, event \in Events :
          \E stopped \in {KernelSingleStep(guest, enters)} :
              IF event # Seccomp \/ ~is_fake_syscall(from_regs(stopped))
              THEN /\ guest' = stopped
                   /\ tramp' = [tramp EXCEPT !.pc = "panicked", !.local_regs = stopped,
                                             !.seen = Append(@, event)]
              ELSE /\ guest' = restore_regs([tramp EXCEPT !.local_regs = stopped])
                   /\ tramp' = [tramp EXCEPT !.pc = "returned", !.local_regs = stopped,
                                             !.seen = Append(@, event),
                                             !.out = WrapperOut(tramp.wrapper,
                                                                tramp.length,
                                                                tramp.result)]
    /\ UNCHANGED <<vfsVars, ipcVars, stubVars, sandVars>>

-----------------------------------------------------------------------------
(* The seccomp policies (sand/src/seccomp.rs).  A policy is a ProgramBuffer: *)
(* a sequence of instructions the kernel runs on the seccomp data of every   *)
(* system call the process enters.                                          *)

\* the numbers a process enters the kernel with: every number of the table
\* of system calls, and one beyond it
SyscallNrs == 0..334 \cup {65535}

SECCOMP_RET_ALLOW == "SECCOMP_RET_ALLOW"
SECCOMP_RET_TRACE == "SECCOMP_RET_TRACE"
SECCOMP_RET_KILL_PROCESS == "SECCOMP_RET_KILL_PROCESS"
\* the kernel's action when a filter ends without a return
SECCOMP_RET_KILL_THREAD == "SECCOMP_RET_KILL_THREAD"

\* bpf: instructions, and ProgramBuffer's builders
load(field) == [op |-> "load", field |-> field, values |-> {}, block |-> <<>>]

ret(action) == [op |-> "ret", field |-> action, values |-> {}, block |-> <<>>]

ProgramBuffer_new == <<>>

inst(p, instruction) == Append(p, instruction)

\* the block runs when the accumulator equals one of the values
if_any_eq(p, values, block) ==
    Append(p, [op |-> "if_any_eq", field |-> "", values |-> values, block |-> block])

\* the accumulator before instruction i: what the last load before it loaded
Accumulator(p, i, data) ==
    LET loads == {j \in 1..(i - 1) : p[j].op = "load"} IN
    IF loads = {} THEN 0
    ELSE data[p[CHOOSE j \in loads : \A k \in loads : k <= j].field]

\* the returns a block of instructions holds
BlockReturns(block) == {j \in 1..Len(block) : block[j].op = "ret"}

\* instruction i returns from the filter
Returns(p, i, data) ==
    \/ p[i].op = "ret"
    \/ /\ p[i].op = "if_any_eq"
       /\ Accumulator(p, i, data) \in p[i].values
       /\ BlockReturns(p[i].block) # {}

\* the kernel runs the filter on the data of a system call
seccomp_run_filter(p, data) ==
    LET returning == {i \in 1..Len(p) : Returns(p, i, data)} IN
    IF returning = {} THEN SECCOMP_RET_KILL_THREAD
    ELSE LET i == CHOOSE r \in returning : \A k \in returning : r <= k IN
         IF p[i].op = "ret" THEN p[i].field
         ELSE LET rets == BlockReturns(p[i].block) IN
              p[i].block[CHOOSE r \in rets : \A k \in rets : r <= k].field

BaseAllowed ==
    {nr.READ, nr.WRITE, nr.PREAD64, nr.PWRITE64, nr.READV, nr.WRITEV,
     nr.SENDMSG, nr.RECVMSG, nr.CLOSE, nr.FCNTL, nr.EXIT_GROUP, nr.EXIT,
     nr.RT_SIGRETURN, nr.FORK, nr.BRK, nr.COPY_FILE_RANGE, nr.SENDFILE}

base_rules_for_all_policies ==
    if_any_eq(inst(ProgramBuffer_new, load("nr")),
              BaseAllowed, <<ret(SECCOMP_RET_ALLOW)>>)

policy_for_tracer ==
    inst(if_any_eq(base_rules_for_all_policies,
                   {nr.ARCH_PRCTL, nr.PRCTL, nr.WAITID, nr.PTRACE, nr.GETPID,
                    nr.EXECVE, nr.KILL},
                   <<ret(SECCOMP_RET_ALLOW)>>),
         ret(SECCOMP_RET_TRACE))

\* the loader's policy without its deny list
policy_for_loader_no_deny_list ==
    inst(base_rules_for_all_policies, ret(SECCOMP_RET_TRACE))

policy_for_loader ==
    inst(if_any_eq(base_rules_for_all_policies,
                   {nr.PTRACE},
                   <<ret(SECCOMP_RET_KILL_PROCESS)>>),
         ret(SECCOMP_RET_TRACE))

\* SeccompData of a system call: the filters look at nr only
SeccompData(n) == [nr |-> n, arch |-> "x86_64"]

InitSeccomp == filter = [policy |-> "none", nr |-> 0, action |-> "none"]

\* abi: the options of prctl that activate uses, and the errors of prctl
prctl_abi ==
    [PR_SET_NO_NEW_PRIVS |-> 38, PR_SET_SECCOMP |-> 22, SECCOMP_MODE_FILTER |-> 2,
     EINVAL |-> 22, EACCES |-> 13]

\* the kernel's prctl(PR_SET_NO_NEW_PRIVS, 1, 0, 0, 0) on process a: res is
\* what it comes to (0, or an error when the call is refused)
sys_prctl_no_new_privs(a, res) ==
    [a EXCEPT !.nnp = @ \/ res = 0,
              !.calls = Append(@, [option |-> prctl_abi.PR_SET_NO_NEW_PRIVS, res |-> res])]

\* the kernel's prctl(PR_SET_SECCOMP, SECCOMP_MODE_FILTER, prog): a process
\* that has neither no_new_privs nor CAP_SYS_ADMIN gets EACCES; otherwise
\* the filter is installed, or the call fails with res
sys_prctl_seccomp(a, policy, res) ==
    LET outcome == IF ~a.nnp /\ ~a.privileged THEN -prctl_abi.EACCES ELSE res IN
    [a EXCEPT !.filters = IF outcome = 0 THEN Append(@, policy) ELSE @,
              !.calls = Append(@, [option |-> prctl_abi.PR_SET_SECCOMP, res |-> outcome])]

\* activate that goes on whatever prctl returned
activate_unchecked(a, policy, nnp_res, seccomp_res) ==
    Then(sys_prctl_seccomp(sys_prctl_no_new_privs([a EXCEPT !.calls = <<>>], nnp_res),
                           policy, seccomp_res), LAMBDA b :
    [b EXCEPT !.pc = policy])

\* activate: the two prctl calls, then the check of the second one's result
activate(a, policy, nnp_res, seccomp_res) ==
    Then(sys_prctl_seccomp(sys_prctl_no_new_privs([a EXCEPT !.calls = <<>>], nnp_res),
                           policy, seccomp_res), LAMBDA b :
    IF b.calls[2].res # 0 THEN [b EXCEPT !.pc = "panicked"]
    ELSE [b EXCEPT !.pc = policy])

InitActivate ==
    act = [pc |-> "start", nnp |-> FALSE, privileged |-> FALSE, filters |-> <<>>,
           calls |-> <<>>]

\* what the two prctl calls may come to
PrctlResults == {0, -prctl_abi.EINVAL}

\* policy_for_tracer, very early in the life of the process, which may
\* have CAP_SYS_ADMIN or not
PolicyForTracer ==
    /\ act.pc = "start"
    /\ \E privileged \in BOOLEAN, nnp_res \in PrctlResults, seccomp_res \in PrctlResults :
          act' = activate([act EXCEPT !.privileged = privileged], "tracer",
                          nnp_res, seccomp_res)
    /\ UNCHANGED <<mem, sock, filter, vfsVars, ipcVars, trampVars, taskVars>>

\* policy_for_loader, in stage 2
PolicyForLoader ==
    /\ act.pc = "tracer"
    /\ \E nnp_res \in PrctlResults, seccomp_res \in PrctlResults :
          act' = activate(act, "loader", nnp_res, seccomp_res)
    /\ UNCHANGED <<mem, sock, filter, vfsVars, ipcVars, trampVars, taskVars>>

\* the tracer, under its policy, enters a system call
TracerSyscall ==
    /\ act.pc = "tracer"
    /\ \E n \in SyscallNrs :
          filter' = [policy |-> "tracer", nr |-> n,
                     action |-> seccomp_run_filter(policy_for_tracer, SeccompData(n))]
    /\ UNCHANGED <<vfsVars, ipcVars, stubVars, trampVars, taskVars>>

\* a process of the sandbox, under the loader's policy, enters a system call
LoaderSyscall ==
    /\ act.pc = "loader"
    /\ \E n \in SyscallNrs :
          filter' = [policy |-> "loader", nr |-> n,
                     action |-> seccomp_run_filter(policy_for_loader, SeccompData(n))]
    /\ UNCHANGED <<vfsVars, ipcVars, stubVars, trampVars, taskVars>>

-----------------------------------------------------------------------------
(* The tasks of the tracer (sand/src/process/task.rs, process/syscall.rs)   *)
(* and the host's IPC server (src/ipcserver.rs).  A task is                  *)
(* [pc, running, regs, mm, maps, pads, call, sent, got, last]: pc is where   *)
(* the task's future stands, running whether its guest has been continued,   *)
(* regs the register file last written to the guest, maps the guest's        *)
(* mappings in the brk arena, pads the scratchpad pages mapped in the guest, *)
(* temps the temporary descriptors open in the guest,                        *)
(* sent the number of requests sent to the host, got the requests that the   *)
(* replies consumed so far answer, last the outcome of the last stop.        *)

\* VPids
Tasks == {1, 2}

\* the tasks together stop at most this many times at a seccomp trap
MaxStops == 2

ENOSYS == 38
ENOENT == 2
ENOMEM == 12
EFAULT == 14
EEXIST == 17
\* abi::SYSCALL_BLOCKED: the number the kernel takes for no system call
SYSCALL_BLOCKED == -1
AT_FDCWD == -100
PAGE_SIZE == 4096
\* the brk arena of a new task
BrkStart == 1048576

\* protocol::LogLevel, ordered by derive(PartialOrd)
LogLevel == [Error |-> 1, Warn |-> 2, Info |-> 3, Debug |-> 4]

\* tracer_settings.max_log_level
MaxLogLevels == {LogLevel.Error, LogLevel.Debug}

page_round_up(n) == ((n + PAGE_SIZE - 1) \div PAGE_SIZE) * PAGE_SIZE

Max(a, b) == IF a >= b THEN a ELSE b

\* the system calls a guest makes
GuestCalls ==
    {[nr |-> nr.BRK, args |-> <<a>>] :
        a \in {0, PAGE_SIZE, BrkStart, BrkStart + 2048, BrkStart + 8192}}
        \cup {[nr |-> nr.GETPID, args |-> <<>>],
              [nr |-> nr.GETPPID, args |-> <<>>],
              [nr |-> nr.IOCTL, args |-> <<1, 21505, 0>>],
              [nr |-> nr.UNAME, args |-> <<8192>>],
              [nr |-> nr.ACCESS, args |-> <<8192, 0>>],
              [nr |-> nr.OPEN, args |-> <<8192, 1, 420>>],
              [nr |-> nr.OPENAT, args |-> <<AT_FDCWD, 8192, 1, 420>>],
              [nr |-> nr.OPENAT, args |-> <<3, 8192, 1, 420>>],
              [nr |-> 41, args |-> <<2, 1, 0>>],
              [nr |-> 65535, args |-> <<>>]}

\* what the remote system calls of one emulation come to: mem for mmap,
\* munmap and mremap of the brk arena, pad for the mmap of Scratchpad::new,
\* fd for TempRemoteFd::new and RemoteFd::from_local, io for the remote
\* writes, free for the munmap of Scratchpad::free, close for
\* TempRemoteFd::free.  They all work, or one of them fails.
AllWork ==
    [mem |-> TRUE, pad |-> TRUE, fd |-> TRUE, io |-> TRUE, free |-> TRUE,
     close |-> TRUE]

Remotes == {AllWork} \cup {[AllWork EXCEPT ![f] = FALSE] : f \in DOMAIN AllWork}

\* Syscall::ret_to_regs
ret_to_regs(ret_value, regs) == [regs EXCEPT !.ax = ret_value]

\* the wrappers of the trampoline, from the result of the syscall they make
mmap(res) == IF res < 0 THEN Err(res) ELSE Ok(res)

munmap(res) == IF res = 0 THEN Ok(0) ELSE Err(res)

\* mmap_anonymous_noreplace that takes any mapping the kernel made
mmap_anonymous_noreplace_anywhere(addr, res, munmap_res) ==
    Then(mmap(res), LAMBDA r : IF ~r.ok THEN r ELSE Ok(0))

\* munmap_res is the result of the munmap that undoes a moved mapping
mmap_anonymous_noreplace(addr, res, munmap_res) ==
    Then(mmap(res), LAMBDA r :
        IF ~r.ok THEN r
        ELSE IF r.v = addr THEN Ok(0)
        ELSE IF ~munmap(munmap_res).ok THEN munmap(munmap_res)
        ELSE Err(-EEXIST))

mremap(addr, res) == IF res = addr THEN Ok(0) ELSE Err(res)

\* the kernel's side of the remote calls on the brk arena: the result, and
\* the mappings of the guest afterwards
KernelMmap(maps, addr, length, works) ==
    IF works THEN [res |-> addr, maps |-> maps \cup {<<addr, addr + length>>}]
    ELSE [res |-> -ENOMEM, maps |-> maps]

KernelMunmap(maps, addr, length, works) ==
    IF works THEN [res |-> 0, maps |-> maps \ {<<addr, addr + length>>}]
    ELSE [res |-> -ENOMEM, maps |-> maps]

KernelMremap(maps, addr, old_length, new_length, works) ==
    IF works
    THEN [res |-> addr,
          maps |-> (maps \ {<<addr, addr + old_length>>})
                       \cup {<<addr, addr + new_length>>}]
    ELSE [res |-> -ENOMEM, maps |-> maps]

\* the outcome of do_brk: its result, the task's mm and the guest's mappings
Brk(res, mm, maps) == [res |-> res, mm |-> mm, maps |-> maps]

\* do_brk setting the break before the remote call has returned
do_brk_set_first(tk, new_brk, k) ==
    IF new_brk # 0
    THEN LET brk_start == tk.mm.brk_start
             old_brk_page == page_round_up(Max(brk_start, tk.mm.brk))
             new_brk_page == page_round_up(Max(brk_start, new_brk))
             set == [tk.mm EXCEPT !.brk = Max(brk_start, new_brk)]
         IN  IF new_brk_page # old_brk_page
             THEN IF new_brk_page = brk_start
                  THEN Then(KernelMunmap(tk.maps, brk_start,
                                         old_brk_page - brk_start, k.mem), LAMBDA r :
                       IF ~munmap(r.res).ok THEN Brk(munmap(r.res), set, r.maps)
                       ELSE Brk(Ok(set.brk), set, r.maps))
                  ELSE IF old_brk_page = brk_start
                  THEN Then(KernelMmap(tk.maps, brk_start,
                                       new_brk_page - brk_start, k.mem), LAMBDA r :
                       IF ~mmap_anonymous_noreplace(brk_start, r.res, 0).ok
                       THEN Brk(mmap_anonymous_noreplace(brk_start, r.res, 0),
                                set, r.maps)
                       ELSE Brk(Ok(set.brk), set, r.maps))
                  ELSE Then(KernelMremap(tk.maps, brk_start, old_brk_page - brk_start,
                                         new_brk_page - brk_start, k.mem), LAMBDA r :
                       IF ~mremap(brk_start, r.res).ok
                       THEN Brk(mremap(brk_start, r.res), set, r.maps)
                       ELSE Brk(Ok(set.brk), set, r.maps))
             ELSE Brk(Ok(set.brk), set, tk.maps)
    ELSE Brk(Ok(tk.mm.brk), tk.mm, tk.maps)

\* do_brk returning the break rounded up to the page
do_brk_page_rounded(tk, new_brk, k) ==
    IF new_brk # 0
    THEN LET brk_start == tk.mm.brk_start
             old_brk_page == page_round_up(Max(brk_start, tk.mm.brk))
             new_brk_page == page_round_up(Max(brk_start, new_brk))
             set == [tk.mm EXCEPT !.brk = new_brk_page]
         IN  IF new_brk_page # old_brk_page
             THEN IF new_brk_page = brk_start
                  THEN Then(KernelMunmap(tk.maps, brk_start,
                                         old_brk_page - brk_start, k.mem), LAMBDA r :
                       IF ~munmap(r.res).ok THEN Brk(munmap(r.res), tk.mm, r.maps)
                       ELSE Brk(Ok(set.brk), set, r.maps))
                  ELSE IF old_brk_page = brk_start
                  THEN Then(KernelMmap(tk.maps, brk_start,
                                       new_brk_page - brk_start, k.mem), LAMBDA r :
                       IF ~mmap_anonymous_noreplace(brk_start, r.res, 0).ok
                       THEN Brk(mmap_anonymous_noreplace(brk_start, r.res, 0),
                                tk.mm, r.maps)
                       ELSE Brk(Ok(set.brk), set, r.maps))
                  ELSE Then(KernelMremap(tk.maps, brk_start, old_brk_page - brk_start,
                                         new_brk_page - brk_start, k.mem), LAMBDA r :
                       IF ~mremap(brk_start, r.res).ok
                       THEN Brk(mremap(brk_start, r.res), tk.mm, r.maps)
                       ELSE Brk(Ok(set.brk), set, r.maps))
             ELSE Brk(Ok(set.brk), set, tk.maps)
    ELSE Brk(Ok(tk.mm.brk), tk.mm, tk.maps)

do_brk(tk, new_brk, k) ==
    IF new_brk # 0
    THEN LET brk_start == tk.mm.brk_start
             old_brk_page == page_round_up(Max(brk_start, tk.mm.brk))
             new_brk_page == page_round_up(Max(brk_start, new_brk))
             set == [tk.mm EXCEPT !.brk = Max(brk_start, new_brk)]
         IN  IF new_brk_page # old_brk_page
             THEN IF new_brk_page = brk_start
                  THEN Then(KernelMunmap(tk.maps, brk_start,
                                         old_brk_page - brk_start, k.mem), LAMBDA r :
                       IF ~munmap(r.res).ok THEN Brk(munmap(r.res), tk.mm, r.maps)
                       ELSE Brk(Ok(set.brk), set, r.maps))
                  ELSE IF old_brk_page = brk_start
                  THEN Then(KernelMmap(tk.maps, brk_start,
                                       new_brk_page - brk_start, k.mem), LAMBDA r :
                       IF ~mmap_anonymous_noreplace(brk_start, r.res, 0).ok
                       THEN Brk(mmap_anonymous_noreplace(brk_start, r.res, 0),
                                tk.mm, r.maps)
                       ELSE Brk(Ok(set.brk), set, r.maps))
                  ELSE Then(KernelMremap(tk.maps, brk_start, old_brk_page - brk_start,
                                         new_brk_page - brk_start, k.mem), LAMBDA r :
                       IF ~mremap(brk_start, r.res).ok
                       THEN Brk(mremap(brk_start, r.res), tk.mm, r.maps)
                       ELSE Brk(Ok(set.brk), set, r.maps))
             ELSE Brk(Ok(set.brk), set, tk.maps)
    ELSE Brk(Ok(tk.mm.brk), tk.mm, tk.maps)

\* the outcome of an emulation: the value for the guest's return register
\* and the task afterwards, or a panic
Emu(ret_value, tk) == [panic |-> FALSE, ret |-> ret_value, tk |-> tk]
Panic(tk) == [panic |-> TRUE, ret |-> 0, tk |-> tk]

\* Scratchpad::new maps a page in the guest, Scratchpad::free unmaps it
Scratchpad_new(tk, works) ==
    IF works THEN [res |-> Ok(0), tk |-> [tk EXCEPT !.pads = @ + 1]]
    ELSE [res |-> Err(-ENOMEM), tk |-> tk]

Scratchpad_free(tk, works) ==
    IF works THEN [res |-> Ok(0), tk |-> [tk EXCEPT !.pads = @ - 1]]
    ELSE [res |-> Err(-EFAULT), tk |-> tk]

\* the descriptor RemoteFd::from_local leaves in the guest
RemoteFdNew == 5

return_errno(tk, err) == IF err >= 0 THEN Panic(tk) ELSE Emu(err, tk)

return_result(tk, res) == IF res.ok THEN Emu(0, tk) ELSE return_errno(tk, res.v)

return_vptr_result(tk, res) == IF res.ok THEN Emu(res.v, tk) ELSE return_errno(tk, res.v)

\* free().await.expect("leaking scratchpad page") panics when the page
\* cannot be unmapped
return_file(tk, k) ==
    Then(Scratchpad_new(tk, k.pad), LAMBDA pad :
    IF ~pad.res.ok THEN return_errno(pad.tk, pad.res.v)
    ELSE LET from_local == IF k.fd THEN Ok(RemoteFdNew) ELSE Err(-EFAULT) IN
         Then(Scratchpad_free(pad.tk, k.free), LAMBDA free :
         IF ~free.res.ok THEN Panic(free.tk)
         ELSE IF from_local.ok THEN Emu(from_local.v, free.tk)
         ELSE return_errno(free.tk, from_local.v)))

return_file_result(tk, res, k) ==
    IF res.ok THEN return_file(tk, k) ELSE return_errno(tk, res.v)

\* the outcome of do_uname: its result and the task afterwards.  Each `?`
\* returns at once with what is mapped at that point.
do_uname(tk, k) ==
    Then(Scratchpad_new(tk, k.pad), LAMBDA pad :
    IF ~pad.res.ok THEN [res |-> pad.res, tk |-> pad.tk]
    ELSE IF ~k.fd THEN [res |-> Err(-ENOMEM), tk |-> pad.tk]
    ELSE LET written == IF k.io THEN Ok(0) ELSE Err(-EFAULT) IN
         Then(Scratchpad_free([pad.tk EXCEPT !.temps = @ + 1], k.free), LAMBDA free :
         IF ~free.res.ok THEN [res |-> free.res, tk |-> free.tk]
         ELSE IF ~k.close THEN [res |-> Err(-EFAULT), tk |-> free.tk]
         ELSE [res |-> written, tk |-> [free.tk EXCEPT !.temps = @ - 1]]))

\* what a match arm of dispatch comes to: a result and the level it is
\* logged at, or a request to the host whose reply the arm awaits
\* FromTask::FileOpen and FromTask::FileAccess
FileOpen(dir, path, flags, mode) ==
    [op |-> "FileOpen", dir |-> dir, path |-> path, flags |-> flags, mode |-> mode]
FileAccess(dir, path, mode) ==
    [op |-> "FileAccess", dir |-> dir, path |-> path, mode |-> mode]

Arm(emu, level) ==
    [kind |-> "done", emu |-> emu, level |-> level, request |-> [op |-> "none"]]
ArmIpc(request, tk, level) ==
    [kind |-> "ipc", emu |-> Emu(0, tk), level |-> level, request |-> request]

\* the system call numbers that have a match arm in dispatch
DispatchTable ==
    {nr.BRK, nr.EXECVE, nr.GETPID, nr.GETPPID, nr.GETUID, nr.GETGID,
     nr.GETEUID, nr.GETEGID, nr.GETPGRP, nr.SETPGID, nr.GETPGID, nr.UNAME,
     nr.SYSINFO, nr.SET_TID_ADDRESS, nr.IOCTL, nr.STAT, nr.FSTAT, nr.LSTAT,
     nr.NEWFSTATAT, nr.ACCESS, nr.GETCWD, nr.CHDIR, nr.OPEN, nr.OPENAT}

\* dispatch with the openat arm reading its arguments where open has them
dispatch_openat_as_open(tk, call, k) ==
    IF call.nr = nr.BRK
    THEN Then(do_brk(tk, call.args[1], k), LAMBDA b :
         Arm(return_vptr_result([tk EXCEPT !.mm = b.mm, !.maps = b.maps], b.res),
              LogLevel.Debug))
    ELSE IF call.nr = nr.GETPID THEN Arm(Emu(tk.vpid, tk), LogLevel.Debug)
    ELSE IF call.nr = nr.GETPPID THEN Arm(Emu(1, tk), LogLevel.Warn)
    ELSE IF call.nr = nr.UNAME
    THEN Then(do_uname(tk, k), LAMBDA u : Arm(return_result(u.tk, u.res), LogLevel.Debug))
    ELSE IF call.nr = nr.IOCTL THEN Arm(Emu(0, tk), LogLevel.Warn)
    ELSE IF call.nr = nr.ACCESS
    THEN ArmIpc(FileAccess("None", VString(call.args[1]), call.args[2]), tk,
                LogLevel.Warn)
    ELSE IF call.nr = nr.OPEN
    THEN ArmIpc(FileOpen("None", VString(call.args[1]), call.args[2], call.args[3]),
                tk, LogLevel.Debug)
    ELSE IF call.nr = nr.OPENAT /\ call.args[1] = AT_FDCWD
    THEN ArmIpc(FileOpen("None", VString(call.args[1]), call.args[2], call.args[3]),
                tk, LogLevel.Debug)
    ELSE Arm(return_result(tk, Err(-ENOSYS)), LogLevel.Error)

\* dispatch, up to the first request to the host; of the match arms, those
\* of the calls in GuestCalls.  The arguments are read as arg_i32, arg_ptr
\* and arg_string read them.
dispatch(tk, call, k) ==
    IF call.nr = nr.BRK
    THEN Then(do_brk(tk, call.args[1], k), LAMBDA b :
         Arm(return_vptr_result([tk EXCEPT !.mm = b.mm, !.maps = b.maps], b.res),
              LogLevel.Debug))
    ELSE IF call.nr = nr.GETPID THEN Arm(Emu(tk.vpid, tk), LogLevel.Debug)
    ELSE IF call.nr = nr.GETPPID THEN Arm(Emu(1, tk), LogLevel.Warn)
    ELSE IF call.nr = nr.UNAME
    THEN Then(do_uname(tk, k), LAMBDA u : Arm(return_result(u.tk, u.res), LogLevel.Debug))
    ELSE IF call.nr = nr.IOCTL THEN Arm(Emu(0, tk), LogLevel.Warn)
    ELSE IF call.nr = nr.ACCESS
    THEN ArmIpc(FileAccess("None", VString(call.args[1]), call.args[2]), tk,
                LogLevel.Warn)
    ELSE IF call.nr = nr.OPEN
    THEN ArmIpc(FileOpen("None", VString(call.args[1]), call.args[2], call.args[3]),
                tk, LogLevel.Debug)
    ELSE IF call.nr = nr.OPENAT /\ call.args[1] = AT_FDCWD
    THEN ArmIpc(FileOpen("None", VString(call.args[2]), call.args[3], call.args[4]),
                tk, LogLevel.Debug)
    ELSE Arm(return_result(tk, Err(-ENOSYS)), LogLevel.Error)

\* ipc_call!: the event after the request must be the reply of the expected
\* kind, anything else is a panic; then the rest of the arm
dispatch_reply(tk, call, reply, k) ==
    IF call.nr = nr.ACCESS
    THEN IF reply.op = "Reply" THEN return_result(tk, reply.result) ELSE Panic(tk)
    ELSE IF reply.op = "FileReply" THEN return_file_result(tk, reply.result, k)
    ELSE Panic(tk)

log_enabled(tk, level) == level <= tk.max_log_level

\* what the task sends to the host: requests carry their number in the
\* task's sequence of requests, notifications carry 0
FromTask(t, op, id) == [task |-> t, op |-> op, id |-> id]
\* a request of dispatch, with the fields of the message
Request(t, request, id) ==
    [task |-> t, op |-> request.op, id |-> id, body |-> request]
ToTask(t, op, res, re) == [task |-> t, op |-> op, result |-> res, re |-> re]

\* Task::log
log(tk, t, level) ==
    IF log_enabled(tk, level) THEN <<FromTask(t, "Log", 0)>> ELSE <<>>

\* the end of dispatch: the result goes to the register file, the call is
\* logged when its level is enabled
dispatch_end(tk, call, ret_value, level) ==
    [tk EXCEPT !.regs = ret_to_regs(ret_value, @),
               !.last = [nr |-> call.nr, args |-> call.args, ret |-> ret_value,
                         level |-> level, logged |-> log_enabled(tk, level),
                         before |-> tk.before]]

\* ptrace::set_regs: the register copy goes to the guest
set_regs(tk) == [tk EXCEPT !.kregs = tk.regs]

\* Task::cont
cont(tk) == [tk EXCEPT !.running = TRUE]

\* handle_seccomp_trap leaving the system call number in place
handle_seccomp_trap_unblocked(tk) ==
    [cont(set_regs(tk)) EXCEPT !.pc = "running"]

\* handle_seccomp_trap writing the registers to the guest before it blocks
\* the system call
handle_seccomp_trap_set_regs_first(tk) ==
    [cont([set_regs(tk) EXCEPT !.regs = orig_nr_to_regs(SYSCALL_BLOCKED, @)])
        EXCEPT !.pc = "running"]

\* handle_seccomp_trap after dispatch: the system call is blocked, the
\* registers are written to the guest, the guest is continued
handle_seccomp_trap(tk) ==
    [cont(set_regs([tk EXCEPT !.regs = orig_nr_to_regs(SYSCALL_BLOCKED, @)]))
        EXCEPT !.pc = "running"]

\* what the host decides: whether the process can be opened and its memory
\* read, whether the path opens, whether the storage has the file; all of
\* it, or all but one
HostAllWork == [readable |-> TRUE, found |-> TRUE, stored |-> TRUE]

HostChoices ==
    {HostAllWork} \cup {[HostAllWork EXCEPT ![f] = FALSE] : f \in DOMAIN HostAllWork}

\* taskcall::file_access
file_access(h) == IF ~h.readable THEN Err(-EFAULT) ELSE Err(-ENOENT)

\* taskcall::file_open
file_open(h) ==
    IF ~h.readable THEN Err(-EFAULT)
    ELSE IF ~h.found THEN Err(-ENOENT)
    ELSE Ok(0)

\* the outcome of a handler of the server: Ok or the error that ends the
\* server, the process table, the messages sent to the sand process
Served(err, table, out) == [err |-> err, table |-> table, out |-> out]

\* task_reply sending the reply twice
task_reply_twice(table, m, res) ==
    Served("Ok", table,
           <<ToTask(m.task, "Reply", res, m.id), ToTask(m.task, "Reply", res, m.id)>>)

task_reply(table, m, res) == Served("Ok", table, <<ToTask(m.task, "Reply", res, m.id)>>)

\* the SysFd of the reply is the descriptor of the file vfile_storage opened
task_file_reply(table, m, res, h) ==
    Served("Ok", table,
           <<ToTask(m.task, "FileReply",
                    IF ~res.ok THEN res
                    ELSE IF h.stored THEN Ok(StubFd) ELSE Err(-ENOENT),
                    m.id)>>)

handle_task_message(table, m, h) ==
    IF m.op = "OpenProcess"
    THEN IF m.task \in table THEN Served("WrongProcessState", table, <<>>)
         ELSE IF ~h.readable THEN Served("ProcessOpenError", table, <<>>)
         ELSE Served("Ok", table \cup {m.task},
                     <<ToTask(m.task, "OpenProcessReply", Ok(0), m.id)>>)
    ELSE IF m.task \notin table THEN Served("WrongProcessState", table, <<>>)
    ELSE IF m.op = "FileAccess" THEN task_reply(table, m, file_access(h))
    ELSE IF m.op = "FileOpen" THEN task_file_reply(table, m, file_open(h), h)
    ELSE task_reply(table, m, Ok(0))

\* Log and Exited are notifications: the server sends nothing back
handle_message(table, m, h) ==
    IF m.op \in {"Log", "Exited"} THEN Served("Ok", table, <<>>)
    ELSE handle_task_message(table, m, h)

\* the values of abi the task loop matches events against
abi ==
    [SIGCHLD |-> 17, SIGSTOP |-> 19, SIGSEGV |-> 11, CLD_EXITED |-> 1,
     CLD_KILLED |-> 2, CLD_TRAPPED |-> 4, PTRACE_SIG_FORK |-> 261,
     PTRACE_SIG_EXEC |-> 1029, PTRACE_SIG_SECCOMP |-> 1797]

\* process::Event: a signal the kernel reports for the task's guest, or a
\* message of the host for the task
SignalEvent(code, status) ==
    [kind |-> "Signal", sig |-> abi.SIGCHLD, code |-> code, status |-> status]
MessageEvent(op) == [kind |-> "Message", sig |-> 0, code |-> 0, status |-> 0, op |-> op]
NoEvent == [kind |-> "None"]

SigstopTrap == SignalEvent(abi.CLD_TRAPPED, abi.SIGSTOP)
ExecTrap == SignalEvent(abi.CLD_TRAPPED, abi.PTRACE_SIG_EXEC)
ForkTrap == SignalEvent(abi.CLD_TRAPPED, abi.PTRACE_SIG_FORK)
SeccompEvent == SignalEvent(abi.CLD_TRAPPED, abi.PTRACE_SIG_SECCOMP)
SignalTrap == SignalEvent(abi.CLD_TRAPPED, abi.SIGSEGV)
ExitedEvent == SignalEvent(abi.CLD_EXITED, 0)
KilledEvent == SignalEvent(abi.CLD_KILLED, 9)

\* the signals the kernel reports while the task awaits its next event;
\* the seccomp trap comes with the guest's system call (SeccompTrap)
SignalEvents == {SigstopTrap, ExecTrap, ForkTrap, SignalTrap, ExitedEvent, KilledEvent}

\* Task::new taking whatever event comes first for the SIGSTOP trap
Task_new_any_first_event(tk, event) ==
    IF tk.pc = "await_sigstop"
    THEN [cont(tk) EXCEPT !.pc = "await_exec", !.hs = @ \o <<"sigstop", "cont">>]
    ELSE IF event = ExecTrap
         THEN [tk EXCEPT !.pc = "opening", !.running = FALSE, !.sent = 1,
                         !.hs = @ \o <<"exec", "send">>]
         ELSE [tk EXCEPT !.pc = "panicked"]

\* Task::new at its first two awaits: the event must be the SIGSTOP trap,
\* after which the guest is continued, then the exec trap, after which
\* OpenProcess is sent; assert_eq panics on any other event
Task_new(tk, event) ==
    IF tk.pc = "await_sigstop"
    THEN IF event = SigstopTrap
         THEN [cont(tk) EXCEPT !.pc = "await_exec",
                               !.hs = @ \o <<"sigstop", "cont">>]
         ELSE [tk EXCEPT !.pc = "panicked"]
    ELSE IF event = ExecTrap
         THEN [tk EXCEPT !.pc = "opening", !.running = FALSE, !.sent = 1,
                         !.hs = @ \o <<"exec", "send">>]
         ELSE [tk EXCEPT !.pc = "panicked"]

\* Task::run ignoring the events it has no arm for
run_ignoring_others(event) ==
    IF event.kind = "Signal" /\ event.sig = abi.SIGCHLD /\ event.code = abi.CLD_TRAPPED
       /\ event.status = abi.PTRACE_SIG_FORK
    THEN "handle_fork"
    ELSE IF event.kind = "Signal" /\ event.sig = abi.SIGCHLD
            /\ event.code = abi.CLD_TRAPPED /\ event.status = abi.PTRACE_SIG_SECCOMP
    THEN "handle_seccomp_trap"
    ELSE IF event.kind = "Signal" /\ event.sig = abi.SIGCHLD
            /\ event.code = abi.CLD_TRAPPED /\ event.status < 256
    THEN "handle_signal"
    ELSE IF event.kind = "Signal" /\ event.sig = abi.SIGCHLD
            /\ event.code = abi.CLD_EXITED
    THEN "handle_exited"
    ELSE "ignore"

\* Task::run: the match on the next event of the loop, by the arm taken
run(event) ==
    IF event.kind = "Signal" /\ event.sig = abi.SIGCHLD /\ event.code = abi.CLD_TRAPPED
       /\ event.status = abi.PTRACE_SIG_FORK
    THEN "handle_fork"
    ELSE IF event.kind = "Signal" /\ event.sig = abi.SIGCHLD
            /\ event.code = abi.CLD_TRAPPED /\ event.status = abi.PTRACE_SIG_SECCOMP
    THEN "handle_seccomp_trap"
    ELSE IF event.kind = "Signal" /\ event.sig = abi.SIGCHLD
            /\ event.code = abi.CLD_TRAPPED /\ event.status < 256
    THEN "handle_signal"
    ELSE IF event.kind = "Signal" /\ event.sig = abi.SIGCHLD
            /\ event.code = abi.CLD_EXITED
    THEN "handle_exited"
    ELSE "panic"

NoCall == [nr |-> -1, args |-> <<>>]
NoLast ==
    [nr |-> -1, args |-> <<>>, ret |-> 0, level |-> 0, logged |-> FALSE,
     before |-> [mm |-> [brk |-> BrkStart, brk_start |-> BrkStart], maps |-> {},
                 sent |-> 0]]

\* TaskData of a task that has not run yet.  regs is the register copy of
\* the handler, kregs the registers the kernel holds for the guest, event
\* the last event the task took, at
\* where the task was when it took it, hs the steps of Task::new so far.
NewTask(t) ==
    [pc |-> "new", vpid |-> t, running |-> FALSE,
     regs |-> [ax |-> 0, orig_ax |-> -1, args |-> <<0, 0, 0, 0, 0, 0>>],
     kregs |-> [ax |-> 0, orig_ax |-> -1, args |-> <<0, 0, 0, 0, 0, 0>>],
     mm |-> [brk |-> BrkStart, brk_start |-> BrkStart],
     maps |-> {}, pads |-> 0, temps |-> 0, max_log_level |-> LogLevel.Debug,
     call |-> NoCall, level |-> 0, sent |-> 0, got |-> <<>>, last |-> NoLast,
     before |-> [mm |-> [brk |-> BrkStart, brk_start |-> BrkStart], maps |-> {},
                 sent |-> 0],
     event |-> NoEvent, at |-> "new", hs |-> <<>>, exits |-> 0]

InitTasks ==
    /\ tasks = [t \in Tasks |-> NewTask(t)]
    /\ wire = [up |-> <<>>, down |-> <<>>]
    /\ host = [alive |-> TRUE, table |-> {}, err |-> "Ok"]
    /\ stops = 0

\* the first message of the stream that is for task t, and the stream
\* without it
FirstFor(t, stream) ==
    CHOOSE i \in 1..Len(stream) :
        stream[i].task = t /\ \A j \in 1..(i - 1) : stream[j].task # t

Without(stream, i) == SubSeq(stream, 1, i - 1) \o SubSeq(stream, i + 1, Len(stream))

\* a panic of any task ends the tracer process (nolibc's panic handler
\* exits), and with it every task
TracerPanicked == \E t \in Tasks : tasks[t].pc = "panicked"

\* Task::new, up to its first await: the ptrace options are set
TaskNew(t) ==
    /\ ~TracerPanicked
    /\ tasks[t].pc = "new"
    /\ \E level \in MaxLogLevels :
          tasks' = [tasks EXCEPT ![t] = [@ EXCEPT !.pc = "await_sigstop",
                                                  !.hs = <<"setoptions">>,
                                                  !.max_log_level = level]]
    /\ UNCHANGED <<wire, host, stops, vfsVars, ipcVars, stubVars, trampVars, seccompVars>>

\* IPCServer::task: the next message of the stream is handled; an error
\* ends the server
HostHandle ==
    /\ host.alive
    /\ wire.up # <<>>
    /\ \E h \in HostChoices :
          \E r \in {handle_message(host.table, Head(wire.up), h)} :
              /\ host' = [alive |-> r.err = "Ok", table |-> r.table, err |-> r.err]
              /\ wire' = [up |-> Tail(wire.up), down |-> wire.down \o r.out]
    /\ UNCHANGED <<tasks, stops, vfsVars, ipcVars, stubVars, trampVars, seccompVars>>

\* the event of a task that awaits a reply: ipc_call! and Task::new go on
\* with the reply they expect and panic on anything else
AwaitReply(t, tk, event, reply, k) ==
    IF event.kind # "Message" THEN [tk |-> [tk EXCEPT !.pc = "panicked"], up |-> <<>>]
    ELSE IF tk.pc = "opening"
    THEN IF reply.op = "OpenProcessReply"
         THEN [tk |-> [cont(tk) EXCEPT !.pc = "running",
                                       !.hs = @ \o <<"reply", "cont">>],
               up |-> <<>>]
         ELSE [tk |-> [tk EXCEPT !.pc = "panicked"], up |-> <<>>]
    ELSE Then(dispatch_reply(tk, tk.call, reply, k), LAMBDA e :
         IF e.panic THEN [tk |-> [e.tk EXCEPT !.pc = "panicked"], up |-> <<>>]
         ELSE [tk |-> handle_seccomp_trap(dispatch_end(e.tk, tk.call, e.ret, tk.level)),
               up |-> log(tk, t, tk.level)])

\* the task's next event is a message from the host: the reply a request
\* awaits, or an event of the running loop
TaskMessage(t) ==
    /\ ~TracerPanicked
    /\ tasks[t].pc \in {"opening", "ipc", "running"}
    /\ \E i \in 1..Len(wire.down) : wire.down[i].task = t
    /\ LET i == FirstFor(t, wire.down)
           reply == wire.down[i]
           event == MessageEvent(reply.op)
           tk == [tasks[t] EXCEPT !.got = Append(@, reply.re), !.event = event,
                                   !.at = tasks[t].pc]
       IN  \E k \in Remotes :
             \E r \in {IF tk.pc = "running"
                       THEN [tk |-> IF run(event) = "panic"
                                    THEN [tk EXCEPT !.pc = "panicked"] ELSE tk,
                             up |-> <<>>]
                       ELSE AwaitReply(t, tk, event, reply, k)} :
               /\ tasks' = [tasks EXCEPT ![t] = r.tk]
               /\ wire' = [up |-> wire.up \o r.up, down |-> Without(wire.down, i)]
    /\ UNCHANGED <<host, stops, vfsVars, ipcVars, stubVars, trampVars, seccompVars>>

\* the kernel stops the guest at a system call the filter traces:
\* handle_seccomp_trap, as far as its first await on the host
SeccompTrap(t) ==
    /\ ~TracerPanicked
    /\ tasks[t].pc = "running"
    /\ tasks[t].running
    /\ run(SeccompEvent) = "handle_seccomp_trap"
    /\ stops < MaxStops
    /\ stops' = stops + 1
    /\ \E guest_call \in GuestCalls, k \in Remotes :
          LET trapped == [tasks[t] EXCEPT
                        !.running = FALSE,
                        !.event = SeccompEvent,
                        !.at = "running",
                        !.kregs = args_to_regs(guest_call.args,
                                               [@ EXCEPT !.ax = -ENOSYS,
                                                         !.orig_ax = guest_call.nr]),
                        !.before = [mm |-> tasks[t].mm, maps |-> tasks[t].maps,
                                    sent |-> tasks[t].sent]]
              \* as_stopped_task: ptrace::get_regs
              stopped == [trapped EXCEPT !.regs = trapped.kregs]
              call == from_regs(stopped.regs)
              tk == [stopped EXCEPT !.call = call]
          IN  \E d \in {dispatch(tk, call, k)} :
                IF d.kind = "ipc"
                THEN /\ tasks' = [tasks EXCEPT ![t] =
                            [tk EXCEPT !.pc = "ipc", !.call = call,
                                       !.level = d.level, !.sent = @ + 1]]
                     /\ wire' = [wire EXCEPT !.up =
                            Append(@, Request(t, d.request, tk.sent + 1))]
                ELSE IF d.emu.panic
                THEN /\ tasks' = [tasks EXCEPT ![t] = [d.emu.tk EXCEPT !.pc = "panicked"]]
                     /\ UNCHANGED wire
                ELSE /\ tasks' = [tasks EXCEPT ![t] =
                            handle_seccomp_trap(
                                dispatch_end(d.emu.tk, call, d.emu.ret, d.level))]
                     /\ wire' = [wire EXCEPT !.up = @ \o log(tk, t, d.level)]
    /\ UNCHANGED <<host, vfsVars, ipcVars, stubVars, trampVars, seccompVars>>

\* the events a task may find next, by what it awaits: the signals the
\* kernel reports for its guest and, in the loop, a message of a host that
\* answers no request
PossibleEvents(tk) ==
    IF tk.pc = "await_sigstop" THEN {SigstopTrap, ExecTrap}
    ELSE IF tk.pc = "await_exec" THEN {ExecTrap, ExitedEvent}
    ELSE IF tk.pc = "running"
    THEN (SignalEvents \ {SigstopTrap, ExecTrap}) \cup {MessageEvent("Reply")}
    ELSE {KilledEvent}

\* handle_fork, handle_signal: both panic
handle_fork(tk) == [tk EXCEPT !.pc = "panicked"]
handle_signal(tk) == [tk EXCEPT !.pc = "panicked"]

\* handle_exited: the host is told, then the task panics ("exit not handled
\* yet")
handle_exited(tk) == [tk EXCEPT !.pc = "panicked", !.exits = @ + 1]

\* the task's next event is not the seccomp trap or the reply it awaits:
\* Task::new at its awaits, ipc_call! at its await, Task::run in the loop
TaskEvent(t) ==
    /\ ~TracerPanicked
    /\ tasks[t].pc \in {"await_sigstop", "await_exec", "opening", "ipc", "running"}
    /\ \E event \in PossibleEvents(tasks[t]) :
          LET tk == [tasks[t] EXCEPT !.event = event, !.at = tasks[t].pc,
                                     !.running = FALSE]
              arm == run(event)
          IN  IF tk.pc \in {"await_sigstop", "await_exec"}
              THEN /\ tasks' = [tasks EXCEPT ![t] = Task_new(tk, event)]
                   /\ wire' = [wire EXCEPT !.up =
                          IF Task_new(tk, event).pc = "opening"
                          THEN Append(@, FromTask(t, "OpenProcess", 1)) ELSE @]
              ELSE IF tk.pc \in {"opening", "ipc"}
              THEN /\ tasks' = [tasks EXCEPT ![t] =
                          AwaitReply(t, tk, event, NoEvent, AllWork).tk]
                   /\ UNCHANGED wire
              ELSE /\ tasks' = [tasks EXCEPT ![t] =
                          IF arm = "handle_fork" THEN handle_fork(tk)
                          ELSE IF arm = "handle_signal" THEN handle_signal(tk)
                          ELSE IF arm = "handle_exited" THEN handle_exited(tk)
                          ELSE IF arm = "panic" THEN [tk EXCEPT !.pc = "panicked"]
                          ELSE tk]
                   /\ wire' = [wire EXCEPT !.up =
                          IF arm = "handle_exited"
                          THEN Append(@, FromTask(t, "Exited", 0)) ELSE @]
    /\ UNCHANGED <<host, stops, vfsVars, ipcVars, stubVars, trampVars, seccompVars>>

-----------------------------------------------------------------------------
(* Specifications: one per component, over the same variables *)

-----------------------------------------------------------------------------
(* The address space of a stopped guest and the trampoline's calls that     *)
(* change it (sand/src/remote/trampoline.rs).  The mappings are the lines   *)
(* of /proc/pid/maps, as MapsIterator yields them; mmap and munmap are the  *)
(* kernel's.                                                                *)

\* the calls of mmap_anonymous_noreplace made on one trampoline
MaxMmaps == 2

Page(n) == n * PAGE_SIZE

\* process::maps::MemArea: start, end and name of a mapping
MemArea(start, end, name) == [start |-> start, end |-> end, name |-> name]

NoArea == MemArea(0, 0, "<none>")

\* the mappings a guest may have besides the kernel's
UserAreas ==
    {MemArea(Page(1), Page(2), "/bin/sh"), MemArea(Page(3), Page(5), "[heap]"),
     MemArea(Page(8), Page(9), "[stack]")}

VVarArea == MemArea(Page(12), Page(13), "[vvar]")
VdsoArea == MemArea(Page(13), Page(14), "[vdso]")
VSyscallArea == MemArea(Page(20), Page(21), "[vsyscall]")

\* the arguments of the mmap calls
MmapAddrs == {Page(3), Page(6)}
MmapLengths == {100, Page(2)}
\* where a kernel that takes the address as a hint puts a mapping
MovedAddrs == {Page(6), Page(10)}

\* MemArea::is_overlap: the address ranges meet and the name is the same
is_overlap(area, other) ==
    /\ area.start < other.end
    /\ other.start < area.end
    /\ area.name = other.name

\* the address ranges meet, whatever the names
RangesMeet(area, lo, hi) == area.start < hi /\ lo < area.end

\* KernelMemAreas::locate: the areas named vdso, vvar and vsyscall; vdso and
\* vvar are unwrapped, vsyscall is an Option
locate(maps) ==
    LET named(n) == {a \in maps : a.name = n}
        one(n) == IF named(n) = {} THEN NoArea ELSE CHOOSE a \in named(n) : TRUE
    IN  [vdso |-> one("[vdso]"), vvar |-> one("[vvar]"),
         vsyscall |-> one("[vsyscall]")]

\* is_userspace_area that leaves the vsyscall page out
is_userspace_area_without_vsyscall(kernel_mem, area) ==
    IF is_overlap(area, kernel_mem.vdso) THEN FALSE
    ELSE IF is_overlap(area, kernel_mem.vvar) THEN FALSE
    ELSE TRUE

is_userspace_area(kernel_mem, area) ==
    IF is_overlap(area, kernel_mem.vdso) THEN FALSE
    ELSE IF is_overlap(area, kernel_mem.vvar) THEN FALSE
    ELSE IF kernel_mem.vsyscall # NoArea /\ is_overlap(area, kernel_mem.vsyscall)
    THEN FALSE
    ELSE TRUE

\* the kernel's mmap of an anonymous private mapping with
\* MAP_FIXED_NOREPLACE.  kern is "new" for a kernel that knows the flag,
\* "old" for one that takes addr as a hint and puts the mapping at `to` when
\* the range is taken, "fail" for one that is out of memory.
sys_mmap(maps, addr, length, kern, to) ==
    LET len == page_round_up(length)
        free(lo) == \A a \in maps : ~RangesMeet(a, lo, lo + len)
    IN  IF kern = "fail" THEN [res |-> -ENOMEM, maps |-> maps]
        ELSE IF free(addr)
        THEN [res |-> addr, maps |-> maps \cup {MemArea(addr, addr + len, "")}]
        ELSE IF kern = "new" THEN [res |-> -EEXIST, maps |-> maps]
        ELSE IF free(to)
        THEN [res |-> to, maps |-> maps \cup {MemArea(to, to + len, "")}]
        ELSE [res |-> -ENOMEM, maps |-> maps]

\* what is left of an area when [lo, hi) is unmapped
Remainder(area, lo, hi) ==
    IF ~RangesMeet(area, lo, hi) THEN {area}
    ELSE (IF area.start < lo THEN {[area EXCEPT !.end = lo]} ELSE {})
             \cup (IF hi < area.end THEN {[area EXCEPT !.start = hi]} ELSE {})

\* the kernel's munmap
sys_munmap(maps, addr, length, works) ==
    IF ~works THEN [res |-> -ENOMEM, maps |-> maps]
    ELSE [res |-> 0,
          maps |-> UNION {Remainder(a, addr, addr + page_round_up(length)) : a \in maps}]

\* Trampoline::mmap_anonymous_noreplace on the guest's mappings: the result,
\* the mappings afterwards, what mmap returned and the munmap calls made
Trampoline_mmap_anonymous_noreplace(maps, addr, length, kern, to, works) ==
    Then(sys_mmap(maps, addr, length, kern, to), LAMBDA m :
    IF ~mmap(m.res).ok \/ mmap(m.res).v = addr
    THEN [res |-> mmap_anonymous_noreplace(addr, m.res, 0), maps |-> m.maps,
          placed |-> m.res, munmaps |-> <<>>]
    ELSE Then(sys_munmap(m.maps, mmap(m.res).v, length, works), LAMBDA u :
         [res |-> mmap_anonymous_noreplace(addr, m.res, u.res), maps |-> u.maps,
          placed |-> m.res, munmaps |-> <<[addr |-> mmap(m.res).v, length |-> length,
                                           res |-> u.res]>>]))

NoMemCall == [op |-> "none"]

InitMem ==
    mem = [pc |-> "none", maps |-> {}, kernel_mem |-> locate({}), mmaps |-> 0,
           issued |-> {}, last |-> NoMemCall]

\* Trampoline::new on a stopped task: the guest's mappings are read and the
\* kernel's areas located
TrampolineNew ==
    /\ mem.pc = "none"
    /\ \E user \in SUBSET UserAreas, vsyscall \in SUBSET {VSyscallArea} :
          \E maps \in {user \cup {VVarArea, VdsoArea} \cup vsyscall} :
              mem' = [mem EXCEPT !.pc = "stopped", !.maps = maps,
                                 !.kernel_mem = locate(maps)]
    /\ UNCHANGED <<act, sock, vfsVars, ipcVars, trampVars, sandVars>>

MmapAnonymousNoreplace ==
    /\ mem.pc = "stopped"
    /\ mem.mmaps < MaxMmaps
    /\ \E addr \in MmapAddrs, length \in MmapLengths, kern \in {"new", "old", "fail"},
          to \in MovedAddrs, works \in BOOLEAN :
          \E r \in {Trampoline_mmap_anonymous_noreplace(mem.maps, addr, length,
                                                        kern, to, works)} :
              mem' = [mem EXCEPT
                         !.maps = r.maps,
                         !.mmaps = @ + 1,
                         !.last = [op |-> "mmap_anonymous_noreplace", addr |-> addr,
                                   length |-> length, res |-> r.res,
                                   placed |-> r.placed, munmaps |-> r.munmaps,
                                   before |-> mem.maps]]
    /\ UNCHANGED <<act, sock, vfsVars, ipcVars, trampVars, sandVars>>

\* MapsIterator yields the mappings by address
FirstArea(areas) == CHOOSE a \in areas : \A b \in areas : a.start <= b.start

\* unmap_all_userspace_mem is called
UnmapAllUserspaceMem ==
    /\ mem.pc = "stopped"
    /\ mem' = [mem EXCEPT !.pc = "teardown", !.last = NoMemCall]
    /\ UNCHANGED <<act, sock, vfsVars, ipcVars, trampVars, sandVars>>

\* unmap_all_userspace_mem without its loop: it returns after one munmap
UnmapTurn_once ==
    /\ mem.pc = "teardown"
    /\ LET userspace == {a \in mem.maps : is_userspace_area(mem.kernel_mem, a)} IN
       IF userspace = {} THEN mem' = [mem EXCEPT !.pc = "returned"]
       ELSE \E works \in BOOLEAN :
                LET area == FirstArea(userspace)
                    u == sys_munmap(mem.maps, area.start, area.end - area.start, works)
                IN  mem' = [mem EXCEPT
                               !.pc = IF munmap(u.res).ok THEN "returned" ELSE "panicked",
                               !.maps = u.maps,
                               !.issued = @ \cup {area},
                               !.last = [op |-> "munmap", area |-> area, res |-> u.res]]
    /\ UNCHANGED <<act, sock, vfsVars, ipcVars, trampVars, sandVars>>

\* one turn of the loop of unmap_all_userspace_mem: the first userspace area
\* is unmapped (unwrap panics when munmap fails), or there is none and the
\* function returns
UnmapTurn ==
    /\ mem.pc = "teardown"
    /\ LET userspace == {a \in mem.maps : is_userspace_area(mem.kernel_mem, a)} IN
       IF userspace = {} THEN mem' = [mem EXCEPT !.pc = "returned"]
       ELSE \E works \in BOOLEAN :
                LET area == FirstArea(userspace)
                    u == sys_munmap(mem.maps, area.start, area.end - area.start, works)
                IN  mem' = [mem EXCEPT
                               !.pc = IF munmap(u.res).ok THEN "teardown" ELSE "panicked",
                               !.maps = u.maps,
                               !.issued = @ \cup {area},
                               !.last = [op |-> "munmap", area |-> area, res |-> u.res]]
    /\ UNCHANGED <<act, sock, vfsVars, ipcVars, trampVars, sandVars>>

-----------------------------------------------------------------------------
(* The stub's end of the IPC socket (sand/src/ipc.rs).  The socket is a    *)
(* stream: the host writes the bytes of each message, the kernel raises    *)
(* SIGIO, the handler sets SIGIO_FLAG, and recv reads when the flag is set *)
(* and its buffer is used up.                                              *)

MaxSent == 3          \* messages the host writes
MaxRecvBuffer == 3    \* bytes of the receive buffer

BUFFER_SIZE == MaxRecvBuffer
MessageLengths == {1, 2}

\* the bytes of the i-th message, of length n
Encoded(i, n) == [k \in 1..n |-> [m |-> i, k |-> k, n |-> n]]

\* protocol::deserialize: the message at the front of the slice and the
\* number of bytes it took, or an error when the slice does not start with
\* a whole message
deserialize_slice(slice) ==
    IF /\ Len(slice) >= 1
       /\ slice[1].k = 1
       /\ Len(slice) >= slice[1].n
       /\ \A k \in 1..slice[1].n : slice[k] = [m |-> slice[1].m, k |-> k, n |-> slice[1].n]
    THEN [ok |-> TRUE, message |-> slice[1].m, bytes_used |-> slice[1].n]
    ELSE [ok |-> FALSE]

InitSocket ==
    sock = [unread |-> <<>>, signal |-> FALSE, flag |-> FALSE,
            recv_buffer |-> <<>>, recv_begin |-> 0, recv_end |-> 0,
            sent |-> 0, got |-> <<>>, pc |-> "idle", last |-> "none"]

\* send_message: the host writes the bytes of the next message; the kernel
\* raises SIGIO for the owner of the socket
HostSend ==
    /\ sock.sent < MaxSent
    /\ \E n \in MessageLengths :
          sock' = [sock EXCEPT !.unread = @ \o Encoded(sock.sent + 1, n),
                               !.sent = @ + 1,
                               !.signal = TRUE]
    /\ UNCHANGED <<mem, act, vfsVars, ipcVars, trampVars, sandVars>>

\* Socket::handle_sigio, at whatever point the signal is delivered
HandleSigio ==
    /\ sock.signal
    /\ sock' = [sock EXCEPT !.signal = FALSE, !.flag = TRUE]
    /\ UNCHANGED <<mem, act, vfsVars, ipcVars, trampVars, sandVars>>

\* Socket::recv up to the call of fill_recv_buffer: the flag is swapped to
\* false only when the buffer is used up
RecvEnter ==
    /\ sock.pc = "idle"
    /\ sock' = IF sock.recv_begin = sock.recv_end
               THEN IF sock.flag
                    THEN [sock EXCEPT !.flag = FALSE, !.pc = "fill"]
                    ELSE [sock EXCEPT !.pc = "parse"]
               ELSE [sock EXCEPT !.pc = "parse"]
    /\ UNCHANGED <<mem, act, vfsVars, ipcVars, trampVars, sandVars>>

\* Socket::fill_recv_buffer: one recvmsg of up to BUFFER_SIZE bytes; EAGAIN
\* leaves the buffer empty
FillRecvBuffer ==
    /\ sock.pc = "fill"
    /\ LET len == IF Len(sock.unread) < BUFFER_SIZE THEN Len(sock.unread) ELSE BUFFER_SIZE
       IN  sock' = [sock EXCEPT !.recv_buffer = SubSeq(sock.unread, 1, len),
                                !.unread = SubSeq(sock.unread, len + 1, Len(sock.unread)),
                                !.recv_begin = 0,
                                !.recv_end = len,
                                !.pc = "parse"]
    /\ UNCHANGED <<mem, act, vfsVars, ipcVars, trampVars, sandVars>>

\* Socket::recv from its second test of the buffer: None, Some(message), or
\* the panic on a slice that does not deserialize
RecvParse ==
    /\ sock.pc = "parse"
    /\ sock' = IF sock.recv_begin = sock.recv_end
               THEN [sock EXCEPT !.last = "None", !.pc = "idle"]
               ELSE LET r == deserialize_slice(
                                 SubSeq(sock.recv_buffer, sock.recv_begin + 1, sock.recv_end))
                    IN  IF r.ok
                        THEN [sock EXCEPT !.recv_begin = @ + r.bytes_used,
                                          !.got = Append(@, r.message),
                                          !.last = "Some",
                                          !.pc = "idle"]
                        ELSE [sock EXCEPT !.last = "panic", !.pc = "panic"]
    /\ UNCHANGED <<mem, act, vfsVars, ipcVars, trampVars, sandVars>>

Init == InitVFS /\ InitIPC /\ InitTrampoline /\ InitSeccomp /\ InitTasks /\ InitMem /\ InitSocket
            /\ InitActivate

NextVFS ==
    \/ WriteFile
    \/ WriteSymlink
    \/ WriteHardlink
    \/ WriteDirectoryMetadata
    \/ WriteFifo
    \/ WriteCharDevice
    \/ WriteBlockDevice
    \/ FinishLoad
    \/ Open

SpecVFS == Init /\ [][NextVFS]_vars

\* the image loader, then the host asking for the content of files
NextContent ==
    \/ WriteFile
    \/ WriteSymlink
    \/ WriteHardlink
    \/ WriteDirectoryMetadata
    \/ WriteFifo
    \/ WriteCharDevice
    \/ WriteBlockDevice
    \/ FinishLoad
    \/ VfileStorage

SpecContent == Init /\ [][NextContent]_vars

\* the image loader, with a clone of the filesystem taken on the way
NextClone ==
    \/ WriteFile
    \/ WriteSymlink
    \/ WriteHardlink
    \/ WriteDirectoryMetadata
    \/ WriteFifo
    \/ WriteCharDevice
    \/ WriteBlockDevice
    \/ Clone

SpecClone == Init /\ [][NextClone]_vars

NextIPC ==
    \/ PushBack
    \/ ExtendBytes
    \/ PopFront
    \/ PushBackFile
    \/ PopFrontFile
    \/ Reset

SpecIPC == Init /\ [][NextIPC]_vars

NextTrampoline ==
    \/ SeccompStop
    \/ SyscallEnter
    \/ ExactEnter
    \/ SyscallExit
    \/ TrampolineTrap

SpecTrampoline == Init /\ [][NextTrampoline]_vars

NextSeccomp ==
    \/ PolicyForTracer
    \/ PolicyForLoader
    \/ TracerSyscall
    \/ LoaderSyscall

SpecSeccomp == Init /\ [][NextSeccomp]_vars

NextTask ==
    \/ \E t \in Tasks : TaskNew(t)
    \/ HostHandle
    \/ \E t \in Tasks : TaskMessage(t)
    \/ \E t \in Tasks : SeccompTrap(t)
    \/ \E t \in Tasks : TaskEvent(t)

SpecTask == Init /\ [][NextTask]_vars

NextMem ==
    \/ TrampolineNew
    \/ MmapAnonymousNoreplace
    \/ UnmapAllUserspaceMem
    \/ UnmapTurn

SpecMem == Init /\ [][NextMem]_vars

\* once called, unmap_all_userspace_mem runs: each remote munmap returns
SpecMemLive == SpecMem /\ WF_vars(UnmapTurn)

NextSocket ==
    \/ HostSend
    \/ HandleSigio
    \/ RecvEnter
    \/ FillRecvBuffer
    \/ RecvParse

SpecSocket == Init /\ [][NextSocket]_vars

\* the kernel delivers a pending signal, and the scheduler calls recv on
\* every turn
SpecSocketLive ==
    /\ SpecSocket
    /\ WF_vars(HandleSigio)
    /\ WF_vars(RecvEnter)
    /\ WF_vars(FillRecvBuffer)
    /\ WF_vars(RecvParse)

-----------------------------------------------------------------------------
(* Properties of the filesystem *)

Allocated == {n \in 0..(Len(fs.inodes) - 1) : IsAlloc(fs, n)}

Directories == {d \in Allocated : get_inode(fs, d).data.kind = "Directory"}

DirMap(d) == get_inode(fs, d).data.map

\* the (directory, name) entries of the whole filesystem whose value is n
EntriesTo(n) ==
    UNION {{<<d, name>> : name \in {x \in DOMAIN DirMap(d) : DirMap(d)[x] = n}} :
           d \in Directories}

Opened == phase = "opened"

OpenedOk == Opened /\ result.err = "Ok"

LimitErrors == {"PathSegmentLimitExceeded", "SymbolicLinkLimitExceeded"}

\* C1: after any sequence of writer calls, every allocated inode's stored
\* stat.nlink equals the number of (directory, name) entries of the whole
\* filesystem whose value is that inode.
C1_LinkCountIsEntryCount ==
    \A n \in Allocated : get_inode(fs, n).stat.nlink = Cardinality(EntriesTo(n))

\* C2: in every reachable filesystem the root is inode 0, inode 0 is a
\* directory, and open("/") succeeds with a VFile that is a directory.
C2_RootIsDirectory ==
    /\ fs.root = 0
    /\ is_directory(fs, 0)
    /\ \E r \in {open(fs, <<"/">>)} : r.err = "Ok" /\ is_directory(fs, r.inode)
    /\ (Opened /\ result.path = <<"/">>) =>
           (result.err = "Ok" /\ is_directory(fs, result.inode))

\* open("/") has returned, on a filesystem the writer has filled to the bound
C2_Witness ==
    /\ Opened
    /\ result.path = <<"/">>
    /\ result.err = "Ok"
    /\ Len(fs.inodes) = MaxInodes

\* C3: every directory d has an entry "." whose value is d, and every
\* directory created as a child of P has an entry ".." whose value is P.
C3_DotAndDotDot ==
    /\ \A d \in Directories : "." \in DOMAIN DirMap(d) /\ DirMap(d)["."] = d
    /\ \A d \in DOMAIN made :
           d \in Directories =>
               (".." \in DOMAIN DirMap(d) /\ DirMap(d)[".."] = made[d])

HasParent(path) == PathParent(path) # NoPath

LastSegment(path) == path[Len(path)]

\* the parent path resolved to a directory, and the entry of the last segment
\* in that directory's map
DirectLookup(path) ==
    Then(open(fs, PathParent(path)), LAMBDA p :
    IF p.err = "Ok" /\ is_directory(fs, p.inode)
                    /\ LastSegment(path) \in DOMAIN DirMap(p.inode)
    THEN [parent |-> p.inode, child |-> DirMap(p.inode)[LastSegment(path)]]
    ELSE NoEntry)

\* C4, as stated: whenever open(p) succeeds, its inode is the one found by
\* resolving the parent of p to a directory and looking the last segment of p
\* up in that directory's map.
C4_OpenIsDirectLookup ==
    (OpenedOk /\ HasParent(result.path)) =>
        result.inode = DirectLookup(result.path).child

\* C4, amended: whenever open(p) succeeds, the last segment of p has an entry
\* in the directory the parent of p resolves to; open's inode is that entry's
\* inode unless the entry is a symbolic link, and then it is the inode the
\* chain of links starting at that entry resolves to, never a link itself.
C4_OpenIsDirectLookupThroughLinks ==
    (OpenedOk /\ HasParent(result.path)) =>
        \E e \in {DirectLookup(result.path)} :
            /\ e # NoEntry
            /\ ~IsKind(fs, result.inode, "SymbolicLink")
            /\ IF ~IsKind(fs, e.child, "SymbolicLink")
               THEN result.inode = e.child
               ELSE \E s \in {resolve_symlinks(fs, Limits_reset, e)} :
                        s.err = "Ok" /\ result.inode = s.entry.child

\* open(p) has succeeded on a path whose last segment names a symbolic link
C4_Witness ==
    /\ OpenedOk
    /\ HasParent(result.path)
    /\ IsKind(fs, DirectLookup(result.path).child, "SymbolicLink")

\* twice the budget of Limits::reset: enough to see what a walk needs
BigLimits == [path_segment |-> 2 * PathSegmentLimit,
              symbolic_link |-> 2 * SymbolicLinkLimit,
              refused |-> "none"]

\* what a walk that ended with budget limits left, out of BigLimits, asked for
LookupsAsked(limits) ==
    (BigLimits.path_segment - limits.path_segment)
        + (IF limits.refused = "path_segment" THEN 1 ELSE 0)

DereferencesAsked(limits) ==
    (BigLimits.symbolic_link - limits.symbolic_link)
        + (IF limits.refused = "symbolic_link" THEN 1 ELSE 0)

\* C5: a public call whose walk asks for a name lookup beyond the 1000th
\* fails with PathSegmentLimitExceeded, one whose walk asks for a dereference
\* beyond the 50th fails with SymbolicLinkLimitExceeded, and neither ends in
\* NotFound or in success.  What open's walk needs is measured by the same
\* walk under twice the budget.
C5_LimitErrors ==
    /\ result.call # "none" =>
           /\ result.refused = "path_segment" =>
                  result.err = "PathSegmentLimitExceeded"
           /\ result.refused = "symbolic_link" =>
                  result.err = "SymbolicLinkLimitExceeded"
           /\ result.err \in LimitErrors => result.refused # "none"
    /\ Opened =>
           \E big \in {open_with(fs, BigLimits, result.path)} :
               LET lookups == LookupsAsked(big.limits)
                   links == DereferencesAsked(big.limits)
               IN  /\ (lookups > PathSegmentLimit /\ links <= SymbolicLinkLimit) =>
                          result.err = "PathSegmentLimitExceeded"
                   /\ (links > SymbolicLinkLimit /\ lookups <= PathSegmentLimit) =>
                          result.err = "SymbolicLinkLimitExceeded"
                   /\ (lookups > PathSegmentLimit \/ links > SymbolicLinkLimit) =>
                          result.err \in LimitErrors
                   /\ (lookups <= PathSegmentLimit /\ links <= SymbolicLinkLimit) =>
                          (result.err = big.err /\ result.inode = big.inode)

\* open has walked the path of more than 1000 components through an existing
\* directory, and the 1001st lookup was refused
C5_Witness ==
    /\ Opened
    /\ result.path = LongPath
    /\ result.refused = "path_segment"
    /\ result.limits.path_segment = 0
    /\ result.err = "PathSegmentLimitExceeded"

\* the root's entry name is a symbolic link to target
IsLinkTo(name, target) ==
    /\ name \in DOMAIN DirMap(fs.root)
    /\ IsKind(fs, DirMap(fs.root)[name], "SymbolicLink")
    /\ get_inode(fs, DirMap(fs.root)[name]).data.path = target

SymlinkLoop(x, y) ==
    /\ x # y
    /\ IsLinkTo(x, <<"/", y>>)
    /\ IsLinkTo(y, <<"/", x>>)

\* C6: with /x -> /y and /y -> /x, open("/x") fails with
\* SymbolicLinkLimitExceeded after exactly 50 dereferences (the 51st is
\* refused), with path-segment budget left.
C6_SymlinkLoop ==
    \A x \in Names, y \in Names :
        (Opened /\ result.path = <<"/", x>> /\ SymlinkLoop(x, y)) =>
            /\ result.err = "SymbolicLinkLimitExceeded"
            /\ result.refused = "symbolic_link"
            /\ Limits_reset.symbolic_link - result.limits.symbolic_link
                   = SymbolicLinkLimit
            /\ result.limits.path_segment > 0

\* open("/a") has returned on a filesystem with /a -> /b and /b -> /a
C6_Witness ==
    /\ Opened
    /\ result.path = <<"/", "a">>
    /\ SymlinkLoop("a", "b")
    /\ result.err = "SymbolicLinkLimitExceeded"

\* C7: open follows a symbolic link in the middle of a path.  When L is a
\* symbolic link in the root with target T, a successful open(L/rest) returns
\* the inode open(T/rest) returns (T taken from the root, the directory that
\* holds L), and when open(T/rest) succeeds open(L/rest) returns the same
\* inode unless the extra lookup and dereference exhaust its budget.
C7_SymlinkInMiddle ==
    \A l \in Names, x \in Names \cup {".."} :
        (Opened /\ result.path = <<l, x>>
                /\ l \in DOMAIN DirMap(fs.root)
                /\ IsKind(fs, DirMap(fs.root)[l], "SymbolicLink")) =>
            \E t \in {open(fs, get_inode(fs, DirMap(fs.root)[l]).data.path \o <<x>>)} :
                /\ result.err = "Ok" =>
                       (t.err = "Ok" /\ t.inode = result.inode)
                /\ t.err = "Ok" =>
                       \/ result.err = "Ok" /\ result.inode = t.inode
                       \/ result.err \in LimitErrors

\* open("b/b") has returned the file written at a/b with content key K,
\* through the link b -> /a
C7_Witness ==
    /\ OpenedOk
    /\ result.path = <<"b", "b">>
    /\ IsLinkTo("b", <<"/", "a">>)
    /\ IsKind(fs, result.inode, "NormalFile")
    /\ get_inode(fs, result.inode).data.key = "K"
    /\ \E t \in {open(fs, <<"/", "a", "b">>)} : t.err = "Ok" /\ t.inode = result.inode

\* C8: write_directory_metadata(p, s) performed twice yields the same result
\* and the same filesystem (inode table, entries, every stat) as performed
\* once, from every reachable filesystem.
C8_WriteDirectoryMetadataIdempotent ==
    phase = "load" =>
        \A path \in Paths, stat \in Stats :
            \E once \in {write_directory_metadata(Writer, path, stat)} :
                \E twice \in {write_directory_metadata(once.w, path, stat)} :
                    twice.err = once.err /\ twice.w = once.w

\* the kind of the node the last vfile_storage call was about
ContentKind == get_inode(fs, result.inode).data.kind

\* C16: the content of a VFile whose inode is a Directory, SymbolicLink,
\* Fifo, Char or Block fails with FileExpected; for NormalFile(K) the storage
\* is asked for exactly key K, and a missing key yields an error and no file.
C16_ContentOfFilesOnly ==
    result.call = "vfile_storage" =>
        /\ ContentKind \in {"Directory", "SymbolicLink", "Fifo", "Char", "Block"} =>
               (result.err = "FileExpected" /\ result.file = NoFile
                    /\ result.asked = {})
        /\ ContentKind = "NormalFile" =>
               /\ result.asked = {get_inode(fs, result.inode).data.key}
               /\ get_inode(fs, result.inode).data.key \notin result.storage.keys =>
                      (result.err # "Ok" /\ result.file = NoFile)
               /\ result.err = "Ok" =>
                      result.file.key = get_inode(fs, result.inode).data.key

\* the content of a NormalFile was asked for and its key is missing
C16_Witness ==
    /\ result.call = "vfile_storage"
    /\ ContentKind = "NormalFile"
    /\ result.storage.io_ok
    /\ result.storage.keys = {"L"}
    /\ result.err = "ImageStorageError"

\* C14: once a Filesystem is cloned, the writer calls made on the original
\* leave the clone as it was: its table holds the same inodes, with the same
\* stat, node and directory entries, so every path resolves as before.
C14_CloneUnchanged ==
    clone.taken =>
        /\ clone.inodes = clone.orig
        /\ \A num \in clone.shared :
               IsAlloc(fs, num) /\ get_inode(fs, num) = clone.orig[num + 1]

\* after the clone the writer has changed the root directory and a second
\* inode that the clone held too
C14_Witness ==
    /\ clone.taken
    /\ Len(clone.orig) >= 2
    /\ fs.inodes[1] # clone.orig[1]
    /\ fs.inodes[2] # clone.orig[2]
    /\ clone.shared # {}

EntryCalls ==
    {"write_file", "write_symlink", "write_fifo", "write_char_device",
     "write_block_device"}

\* C15: an entry-creating writer call whose path has parent directories
\* that do not exist creates each of them as a directory of mode 0o755,
\* allocates one new inode for the entry, enters it under the last segment
\* of the path in the parent, and a following open of the path reaches it
\* (for walks that stay within the limits).
C15_EntryCreated ==
    (result.call \in EntryCalls /\ result.missing /\ result.refused = "none") =>
        LET new == Len(fs.inodes) - 1
            dir == open(fs, PathParent(result.path))
        IN  /\ Len(fs.inodes) = result.before + Len(result.path)
            /\ \A d \in result.before..(new - 1) :
                   /\ IsAlloc(fs, d)
                   /\ get_inode(fs, d).data.kind = "Directory"
                   /\ get_inode(fs, d).stat.mode = 493
            /\ IsAlloc(fs, new)
            /\ dir.err = "Ok"
            /\ get_inode(fs, dir.inode).data.kind = "Directory"
            /\ FileName(result.path) \in DOMAIN get_inode(fs, dir.inode).data.map
            /\ get_inode(fs, dir.inode).data.map[FileName(result.path)] = new
            /\ open(fs, result.path).err = "Ok"
            /\ open(fs, result.path).inode = new

\* the path walk of the last open, without open's resolution of the tail
TailWalk == resolve_path(fs, Limits_reset, fs.root, result.path)

\* C22: the path walk returns the tail entry as it is, so a path whose last
\* segment names a symbolic link resolves to the link's own inode, while
\* open resolves it: no successful open returns an inode that is a
\* SymbolicLink.
C22_TailLinkKeptByWalkResolvedByOpen ==
    /\ (Opened /\ HasParent(result.path)) =>
           \E e \in {DirectLookup(result.path)} :
               IsKind(fs, e.child, "SymbolicLink") =>
                   /\ TailWalk.err = "Ok"
                   /\ TailWalk.entry = e
                   /\ IsKind(fs, TailWalk.entry.child, "SymbolicLink")
    /\ OpenedOk => ~IsKind(fs, result.inode, "SymbolicLink")

\* open has succeeded on a path whose walk ends at a symbolic link, with an
\* inode other than the link's
C22_Witness ==
    /\ OpenedOk
    /\ HasParent(result.path)
    /\ TailWalk.err = "Ok"
    /\ IsKind(fs, TailWalk.entry.child, "SymbolicLink")
    /\ result.inode # TailWalk.entry.child
    /\ ~IsKind(fs, result.inode, "SymbolicLink")

\* the names the writer enters into a directory
InsertNames == Names \cup {".."}

LinkCount(f, n) == get_inode(f, n).stat.nlink

\* the inode the entry of this name holds before the insert, -1 when the
\* directory has no such entry
Displaced(parent, name) ==
    IF name \in DOMAIN DirMap(parent) THEN DirMap(parent)[name] ELSE -1

\* the link counts after a successful insert: the inserted inode's is one
\* more, the displaced inode's one less, every other as before
InsertCounts(r, parent, name, child) ==
    /\ get_inode(r.w, parent).data.map[name] = child
    /\ \A n \in Allocated :
           LinkCount(r.w, n) =
               LinkCount(fs, n) + (IF n = child THEN 1 ELSE 0)
                                - (IF n = Displaced(parent, name) THEN 1 ELSE 0)

\* the count the displaced inode has when it is decremented
CountAtDecrement(parent, name, child) ==
    LinkCount(fs, Displaced(parent, name))
        + (IF Displaced(parent, name) = child THEN 1 ELSE 0)

\* C29: add_child_to_directory increments the inserted inode's link count
\* by one and, when the name had an entry, decrements the displaced inode's
\* by one; an increment past the maximum or a decrement below zero returns
\* INodeRefCountError and no wrapped value is stored.
C29_InsertCountsLinks ==
    phase = "load" =>
        \A parent \in Directories, child \in Allocated, name \in InsertNames :
            \E r \in {add_child_to_directory(Writer, parent, name, child)} :
                /\ r.err \in {"Ok", "INodeRefCountError"}
                /\ LinkCount(fs, child) = U64_MAX =>
                       (r.err = "INodeRefCountError" /\ r.w.inodes = fs.inodes)
                /\ r.err = "Ok" => InsertCounts(r, parent, name, child)
                /\ (/\ LinkCount(fs, child) < U64_MAX
                    /\ Displaced(parent, name) # -1
                    /\ CountAtDecrement(parent, name, child) = 0) =>
                       /\ r.err = "INodeRefCountError"
                       /\ LinkCount(r.w, Displaced(parent, name)) = 0
                /\ r.err = "INodeRefCountError" =>
                       \/ LinkCount(fs, child) = U64_MAX
                       \/ /\ Displaced(parent, name) # -1
                          /\ CountAtDecrement(parent, name, child) = 0
                /\ \A n \in Allocated : LinkCount(r.w, n) \in 0..U64_MAX

\* a writer call has failed on the increment, and the filesystem has an
\* insert that displaces another inode, one whose inode is at the maximum
\* and one whose displaced inode is at zero
C29_Witness ==
    /\ phase = "load"
    /\ result.call = "write_file"
    /\ result.err = "INodeRefCountError"
    /\ \E parent \in Directories, child \in Allocated, name \in InsertNames :
           /\ Displaced(parent, name) \notin {-1, child}
           /\ add_child_to_directory(Writer, parent, name, child).err = "Ok"
    /\ \E child \in Allocated : LinkCount(fs, child) = U64_MAX
    /\ \E parent \in Directories, child \in Allocated, name \in InsertNames :
           /\ LinkCount(fs, child) < U64_MAX
           /\ Displaced(parent, name) # -1
           /\ CountAtDecrement(parent, name, child) = 0

\* slot i of the table keeps its inode: it stays populated, the variant of
\* its node is the same, and so is all of a node that is no directory
SlotKept(before, after) ==
    before # NoInode =>
        /\ after # NoInode
        /\ after.data.kind = before.data.kind
        /\ before.data.kind # "Directory" => after.data = before.data

\* C30: the inode table is append-only across writer operations: its length
\* never decreases, a populated slot never becomes empty, and the node
\* variant stored at an index never changes (its stat and, for a directory,
\* its entry map may); so no allocated index is ever allocated again.
C30_TableAppendOnly ==
    [][/\ Len(fs'.inodes) >= Len(fs.inodes)
       /\ \A i \in 1..Len(fs.inodes) : SlotKept(fs.inodes[i], fs'.inodes[i])]_vars

\* a second writer call has added an inode under a name that had an entry:
\* the inode the name held before is still in its slot, with no entry left
C30_Witness ==
    /\ phase = "load"
    /\ ops = MaxOps
    /\ result.call \in EntryCalls
    /\ result.err = "Ok"
    /\ Len(fs.inodes) > result.before
    /\ \E n \in Allocated :
           /\ n < result.before
           /\ EntriesTo(n) = {}
           /\ get_inode(fs, n).data.kind # "Directory"

\* C39: a writer operation that returns an error leaves the filesystem
\* unchanged: when write_file, write_symlink, write_hardlink, write_fifo,
\* write_char_device or write_block_device fails, no inode has been
\* allocated, no link count has changed and no directory entry has been
\* added.
C39_FailedWriteChangesNothing ==
    [][(ops' = ops + 1 /\ result'.err # "Ok"
           /\ result'.call \in EntryCalls \cup {"write_hardlink"})
           => fs' = fs]_vars

-----------------------------------------------------------------------------
(* Properties of the IPC buffer *)

\* C9: a message pushed into an empty buffer and popped as the same type
\* comes back equal, and the buffer is empty again.
C9_RoundTrip ==
    (io.op = "pop_front" /\ io.pushed # NoValue /\ io.ty = TypeOf(io.pushed)) =>
        /\ io.err = "Ok"
        /\ io.value = io.pushed
        /\ is_empty(buf)

\* the size of a message on the wire: a scalar is fixed-width, an enum
\* variant has one leading tag byte, a descriptor takes no byte
RECURSIVE EncodedBytes(_)
SumBytes(fields) ==
    LET RECURSIVE sum(_)
        sum(i) == IF i = 0 THEN 0 ELSE EncodedBytes(fields[i]) + sum(i - 1)
    IN  sum(Len(fields))

EncodedBytes(m) ==
    IF m.kind = "bool" THEN 1
    ELSE IF m.kind \in {"u32", "i32"} THEN 4
    ELSE IF m.kind = "u64" THEN 8
    ELSE IF m.kind = "none" THEN 1
    ELSE IF m.kind = "newtype_struct" THEN EncodedBytes(m.inner)
    ELSE IF m.kind = "struct" THEN SumBytes(m.fields)
    ELSE IF m.kind = "tuple" THEN SumBytes(m.elems)
    ELSE IF m.kind = "unit_variant" THEN 1
    ELSE IF m.kind = "newtype_variant" THEN 1 + EncodedBytes(m.inner)
    ELSE IF m.kind = "tuple_variant" THEN 1 + SumBytes(m.fields)
    ELSE 0

\* C17: the buffer never holds more than 128 bytes or 8 descriptors, and a
\* push_back of a message whose encoding does not fit in the bytes that are
\* left returns BufferFull.
C17_BufferFull ==
    /\ Len(buf.bytes) <= BytesMax
    /\ Len(buf.files) <= FilesMax
    /\ (io.op = "push_back" /\ EncodedBytes(io.message) > BytesMax - io.bytes_before) =>
           io.err = "BufferFull"

\* the n little-endian bytes of the two's complement of v
RECURSIVE LittleEndian(_, _)
LittleEndian(v, n) ==
    IF n = 0 THEN <<>> ELSE <<v % 256>> \o LittleEndian(v \div 256, n - 1)

\* the bytes and the descriptors the last push_back appended
PushedBytes == SubSeq(buf.bytes, io.bytes_before + 1, Len(buf.bytes))
PushedFiles == SubSeq(buf.files, io.files_before + 1, Len(buf.files))

\* the buffer had room for five bytes and a descriptor more
RoomForResult ==
    io.bytes_before + 5 <= BytesMax /\ io.files_before + 1 <= FilesMax

\* C37: a descriptor contributes no bytes: encoding Ok(SysFd(f)) of a
\* Result<SysFd, Errno> appends exactly the tag byte 0 to the bytes and f to
\* the descriptors, encoding Err(Errno(e)) appends the tag byte 1 and the 4
\* little-endian bytes of e and no descriptor, and an enum variant index of
\* 256 or more is rejected with InvalidValue.
C37_ResultEncoding ==
    (io.op = "push_back" /\ RoomForResult) =>
        /\ (io.message.kind = "newtype_variant" /\ io.message.name = "Result"
               /\ io.message.variant = "Ok" /\ io.message.inner.name = "SysFd") =>
               /\ io.err = "Ok"
               /\ PushedBytes = <<0>>
               /\ PushedFiles = <<io.message.inner>>
        /\ (io.message.kind = "newtype_variant" /\ io.message.name = "Result"
               /\ io.message.variant = "Err") =>
               /\ io.err = "Ok"
               /\ PushedBytes = <<1>> \o LittleEndian(io.message.inner.inner.v, 4)
               /\ PushedFiles = <<>>
        /\ (io.message.kind = "newtype_variant" /\ io.message.index >= 256) =>
               io.err = "InvalidValue"

-----------------------------------------------------------------------------
(* Properties of the trampoline *)

\* C10: when Trampoline::syscall has returned, the register file last
\* written to the process is the snapshot taken before the call, and
\* stopped_task.regs still holds that snapshot.
C10_RegistersRestored ==
    tramp.pc = "returned" =>
        /\ guest = tramp.snapshot
        /\ tramp.regs = tramp.snapshot

\* a second remote call has returned a nonzero result, after the kernel has
\* overwritten ax, cx, ip, sp and the arguments on the way
C10_Witness ==
    /\ tramp.pc = "returned"
    /\ tramp.calls = MaxCalls
    /\ tramp.result = 4096
    /\ tramp.local_regs.ip = vdso_syscall
    /\ tramp.local_regs # tramp.snapshot

\* C18: pread_exact, pwrite_exact and getrandom_exact return Ok only when
\* the remote system call transferred exactly the requested length; another
\* non-negative result gives Err(-EIO), a negative result is returned as the
\* errno.
C18_ExactTransfers ==
    (tramp.pc = "returned" /\ tramp.wrapper \in ExactWrappers) =>
        /\ tramp.out.ok => tramp.result = tramp.length
        /\ tramp.result = tramp.length => tramp.out = Ok(0)
        /\ (tramp.result >= 0 /\ tramp.result # tramp.length) =>
               tramp.out = Err(-EIO)
        /\ tramp.result < 0 => tramp.out = Err(tramp.result)

\* pread_exact asked for 4096 bytes and the remote pread64 transferred none
C18_Witness ==
    /\ tramp.pc = "returned"
    /\ tramp.wrapper = "pread_exact"
    /\ tramp.length = 4096
    /\ tramp.result = 0
    /\ tramp.out = Err(-EIO)

\* the stop has the number and the six arguments of the fake system call
Sentinel(regs) ==
    /\ from_regs(regs).nr = fake_syscall_nr
    /\ \A i \in 1..6 : from_regs(regs).args[i] = fake_syscall_arg

\* C23: a call of Trampoline::syscall goes through these points in order.
\* Awaiting the first event, no event has been taken and the process holds
\* the replacement registers (the saved ones but for the number and the
\* arguments).  Awaiting the second, exactly the syscall-exit stop has been
\* taken and the process holds the sentinel number and arguments with ip at
\* the vdso's syscall instruction and sp = 0.  Returned, exactly two events
\* have been taken, the second a seccomp stop that decodes to the sentinel,
\* and the process holds the saved registers again.  Any other event at
\* either await, or a stop that does not decode to the sentinel, panics.
C23_SyscallSteps ==
    /\ tramp.pc = "in_syscall" =>
           /\ tramp.seen = <<>>
           /\ guest = tramp.local_regs
           /\ [guest EXCEPT !.orig_ax = tramp.regs.orig_ax, !.args = tramp.regs.args]
                  = tramp.regs
    /\ tramp.pc = "in_trampoline" =>
           /\ tramp.seen = <<TraceSysGood>>
           /\ guest.ax = fake_syscall_nr
           /\ \A i \in 1..6 : guest.args[i] = fake_syscall_arg
           /\ guest.ip = vdso_syscall
           /\ guest.sp = 0
    /\ tramp.pc = "returned" =>
           /\ tramp.seen = <<TraceSysGood, Seccomp>>
           /\ Sentinel(tramp.local_regs)
           /\ guest = tramp.regs
    /\ Len(tramp.seen) <= 2
    /\ (Len(tramp.seen) >= 1 /\ tramp.seen[1] # TraceSysGood) => tramp.pc = "panicked"
    /\ (Len(tramp.seen) = 2 /\ tramp.seen[2] # Seccomp) => tramp.pc = "panicked"
    /\ (Len(tramp.seen) = 2 /\ ~Sentinel(tramp.local_regs)) => tramp.pc = "panicked"
    /\ tramp.pc = "panicked" =>
           \/ tramp.seen[1] # TraceSysGood
           \/ Len(tramp.seen) = 2 /\ tramp.seen[2] # Seccomp
           \/ Len(tramp.seen) = 2 /\ ~Sentinel(tramp.local_regs)

\* the first call of a stop has returned after its two events
C23_Witness ==
    /\ tramp.pc = "returned"
    /\ tramp.calls = 1
    /\ tramp.seen = <<TraceSysGood, Seccomp>>
    /\ guest = tramp.regs

-----------------------------------------------------------------------------
(* Properties of the seccomp policies *)

\* C11: the loader's policy, as a function from system call number to
\* action, gives KILL_PROCESS for ptrace, ALLOW for read, write and close,
\* and TRACE for every number that is neither in the shared base allow list
\* nor ptrace.
C11_LoaderPolicy ==
    filter.policy = "loader" =>
        /\ filter.nr = nr.PTRACE => filter.action = SECCOMP_RET_KILL_PROCESS
        /\ filter.nr \in {nr.READ, nr.WRITE, nr.CLOSE} =>
               filter.action = SECCOMP_RET_ALLOW
        /\ filter.nr \notin BaseAllowed \cup {nr.PTRACE} =>
               filter.action = SECCOMP_RET_TRACE

\* a process under the loader's policy has entered ptrace and was killed
C11_Witness ==
    /\ filter.policy = "loader"
    /\ filter.nr = nr.PTRACE
    /\ filter.action = SECCOMP_RET_KILL_PROCESS

\* activate has run for a policy
Activated == act.pc \in {"tracer", "loader", "panicked"}

\* the calls of the last activate: PR_SET_NO_NEW_PRIVS, then PR_SET_SECCOMP
NoNewPrivsThenFilter ==
    /\ Len(act.calls) = 2
    /\ act.calls[1].option = prctl_abi.PR_SET_NO_NEW_PRIVS
    /\ act.calls[2].option = prctl_abi.PR_SET_SECCOMP

\* C36, as stated: installing either policy first asserts
\* PR_SET_NO_NEW_PRIVS and only then installs the filter program, and a
\* failure of either step panics, so that the process never continues to
\* run without the filter in place.
C36_ActivateOrPanic ==
    Activated =>
        /\ NoNewPrivsThenFilter
        /\ (act.calls[1].res # 0 \/ act.calls[2].res # 0) => act.pc = "panicked"
        /\ act.pc # "panicked" =>
               (act.filters # <<>> /\ act.filters[Len(act.filters)] = act.pc)

\* C36, amended: installing either policy first calls PR_SET_NO_NEW_PRIVS
\* and only then installs the filter program; a failure of the installation
\* panics, so that the process never continues to run without the filter in
\* place, while the result of PR_SET_NO_NEW_PRIVS is not looked at: after
\* its failure the installation is still tried, and the process panics
\* exactly when the installation fails.
C36_ActivateOrPanicOnInstall ==
    Activated =>
        /\ NoNewPrivsThenFilter
        /\ act.pc = "panicked" <=> act.calls[2].res # 0
        /\ act.pc # "panicked" =>
               (act.filters # <<>> /\ act.filters[Len(act.filters)] = act.pc)
        /\ (~act.nnp /\ ~act.privileged) => act.pc = "panicked"

\* the loader's policy is installed on top of the tracer's
C36_Witness ==
    /\ act.pc = "loader"
    /\ act.filters = <<"tracer", "loader">>
    /\ NoNewPrivsThenFilter
    /\ act.calls[1].res = 0
    /\ act.calls[2].res = 0
    /\ filter.policy = "loader"

-----------------------------------------------------------------------------
(* Properties of the tasks *)

BrkGrowth(t) ==
    /\ tasks[t].pc # "panicked"
    /\ tasks[t].last.nr = nr.BRK
    /\ tasks[t].last.args[1] = BrkStart + 2048
    /\ tasks[t].last.before.mm = [brk |-> BrkStart, brk_start |-> BrkStart]

Arena(mm) ==
    IF page_round_up(mm.brk) = mm.brk_start THEN {}
    ELSE {<<mm.brk_start, page_round_up(mm.brk)>>}

BrkReturned(t) == tasks[t].pc # "new" /\ tasks[t].last.nr = nr.BRK

C19_OneOutstandingRequest ==
    \A t \in Tasks :
        /\ tasks[t].sent - Len(tasks[t].got) \in {0, 1}
        /\ tasks[t].sent - Len(tasks[t].got) = 1 =>
               /\ tasks[t].pc \in {"opening", "ipc", "panicked"}
               /\ ~tasks[t].running
        /\ \A i \in 1..Len(tasks[t].got) : tasks[t].got[i] = i

\* a task has consumed the replies to two requests and awaits the reply to
\* its third, while the other task awaits a reply as well
C19_Witness ==
    \E t \in Tasks, u \in Tasks :
        /\ t # u
        /\ tasks[t].got = <<1, 2>>
        /\ tasks[t].sent = 3
        /\ tasks[t].pc = "ipc"
        /\ tasks[u].sent - Len(tasks[u].got) = 1

\* C20: a task whose emulation has returned has no scratchpad mapped in
\* its guest.
C20_ScratchpadFreed ==
    \A t \in Tasks :
        tasks[t].pc = "running" => tasks[t].pads = 0

\* C40: every temporary remote file descriptor acquired during a syscall
\* emulation is released before the emulation returns, on every exit path,
\* the one where freeing the scratchpad fails included: a task whose
\* emulation has returned has no temporary descriptor open in its guest.
C40_TempRemoteFdReleased ==
    \A t \in Tasks :
        tasks[t].pc = "running" => tasks[t].temps = 0

\* C21: an error of the server while it handles one task's message does not
\* end the server.
C21_ServerSurvivesTaskError ==
    host.err # "Ok" => host.alive

\* the steps of Task::new, in order
Handshake == <<"setoptions", "sigstop", "cont", "exec", "send", "reply", "cont">>

\* C24: a guest that runs again after a seccomp stop has the result of the
\* dispatched call in its return register and the blocked sentinel as its
\* system call number, as the handler's register copy holds them; while the
\* stop is being handled the guest is stopped with the registers of the
\* stop.
C24_SeccompStopSequence ==
    \A t \in Tasks :
        /\ (tasks[t].pc = "running" /\ tasks[t].running /\ tasks[t].call # NoCall) =>
               /\ tasks[t].last.nr = tasks[t].call.nr
               /\ tasks[t].last.args = tasks[t].call.args
               /\ tasks[t].regs.ax = tasks[t].last.ret
               /\ tasks[t].regs.orig_ax = SYSCALL_BLOCKED
               /\ tasks[t].kregs = tasks[t].regs
        /\ tasks[t].pc = "ipc" =>
               /\ ~tasks[t].running
               /\ tasks[t].kregs.orig_ax = tasks[t].call.nr
               /\ tasks[t].kregs.args = tasks[t].call.args

\* a guest runs again after getpid
C24_Witness ==
    \E t \in Tasks :
        /\ tasks[t].pc = "running"
        /\ tasks[t].running
        /\ tasks[t].call.nr = nr.GETPID
        /\ tasks[t].kregs.ax = t
        /\ tasks[t].kregs.orig_ax = SYSCALL_BLOCKED

\* C25: the steps of Task::new are taken in the order of Handshake; no
\* request is sent before the exec trap; until OpenProcessReply has been
\* received the task is not in its loop, its guest is not continued into
\* the loop and no system call is emulated; an event other than the
\* awaited one at any of the three awaits panics.
C25_Handshake ==
    \A t \in Tasks :
        /\ tasks[t].hs = SubSeq(Handshake, 1, Len(tasks[t].hs))
        /\ tasks[t].sent >= 1 => Len(tasks[t].hs) >= 5
        /\ tasks[t].hs # Handshake =>
               /\ tasks[t].pc \notin {"running", "ipc"}
               /\ tasks[t].call = NoCall
               /\ tasks[t].last = NoLast
               /\ tasks[t].running => tasks[t].pc = "await_exec"
        /\ tasks[t].hs = Handshake =>
               /\ Len(tasks[t].got) >= 1
               /\ tasks[t].got[1] = 1
        /\ (tasks[t].at = "await_sigstop" /\ tasks[t].event # SigstopTrap) =>
               tasks[t].pc = "panicked"
        /\ (tasks[t].at = "await_exec" /\ tasks[t].event # ExecTrap) =>
               tasks[t].pc = "panicked"
        /\ (tasks[t].at = "opening" /\ tasks[t].event # MessageEvent("OpenProcessReply")) =>
               tasks[t].pc = "panicked"

\* a task has gone through the handshake and a second one panicked at its
\* first await
C25_Witness ==
    \E t \in Tasks, u \in Tasks :
        /\ tasks[t].hs = Handshake
        /\ tasks[t].pc = "running"
        /\ tasks[t].running
        /\ tasks[u].at = "await_sigstop"
        /\ tasks[u].event = ExecTrap
        /\ tasks[u].pc = "panicked"

\* C26: a task that has observed a fork trap in its loop is running.
C26_ForkSpawnsChild ==
    \A t \in Tasks :
        (tasks[t].at = "running" /\ tasks[t].event = ForkTrap) =>
            tasks[t].pc = "running"

\* C27: a task that has observed the exit of its guest in its loop has sent
\* Exited once and is in the state Exited, not panicked.
C27_ExitedIsTerminal ==
    \A t \in Tasks :
        (tasks[t].at = "running" /\ tasks[t].event = ExitedEvent) =>
            /\ tasks[t].exits = 1
            /\ tasks[t].pc = "exited"

\* the events Task::run has an arm for
Recognized(event) ==
    /\ event.kind = "Signal"
    /\ event.sig = abi.SIGCHLD
    /\ \/ event.code = abi.CLD_TRAPPED /\ event.status = abi.PTRACE_SIG_FORK
       \/ event.code = abi.CLD_TRAPPED /\ event.status = abi.PTRACE_SIG_SECCOMP
       \/ event.code = abi.CLD_TRAPPED /\ event.status < 256
       \/ event.code = abi.CLD_EXITED

\* C28: a task that took in its loop an event the loop has no arm for has
\* panicked; a message of the host is such an event.
C28_UnrecognizedEventPanics ==
    \A t \in Tasks :
        /\ (tasks[t].at = "running" /\ ~Recognized(tasks[t].event)) =>
               tasks[t].pc = "panicked"
        /\ ~Recognized(MessageEvent("Reply"))

\* a task in its loop, no request outstanding, found a message of the host
C28_Witness ==
    \E t \in Tasks :
        /\ tasks[t].at = "running"
        /\ tasks[t].event = MessageEvent("Reply")
        /\ tasks[t].sent = Len(tasks[t].got)
        /\ tasks[t].pc = "panicked"

\* the FileOpen requests on their way to the host
FileOpensSent == {i \in 1..Len(wire.up) : wire.up[i].op = "FileOpen"}

\* open with the path, flags and mode of this openat
OpenOf(call) == [nr |-> nr.OPEN, args |-> SubSeq(call.args, 2, 4)]

\* C35: an openat whose directory argument is not AT_FDCWD sends no
\* FileOpen request to the host and returns -ENOSYS to the guest; an openat
\* with AT_FDCWD sends the same FileOpen request (dir = None, path, flags,
\* mode) as open with the same path, flags and mode.
C35_OpenatCwdOnly ==
    /\ \A t \in Tasks :
           /\ (tasks[t].pc = "running" /\ tasks[t].last.nr = nr.OPENAT
                   /\ tasks[t].last.args[1] # AT_FDCWD) =>
                  /\ tasks[t].last.ret = -ENOSYS
                  /\ tasks[t].kregs.ax = -ENOSYS
                  /\ tasks[t].sent = tasks[t].last.before.sent
           /\ (tasks[t].pc = "ipc" /\ tasks[t].call.nr = nr.OPENAT) =>
                  tasks[t].call.args[1] = AT_FDCWD
    /\ \A i \in FileOpensSent :
           \E c \in {tasks[wire.up[i].task].call} :
               /\ c.nr \in {nr.OPEN, nr.OPENAT}
               /\ wire.up[i].body.dir = "None"
               /\ c.nr = nr.OPENAT =>
                      /\ c.args[1] = AT_FDCWD
                      /\ wire.up[i].body =
                             dispatch(tasks[wire.up[i].task], OpenOf(c), AllWork).request
                      /\ wire.up[i].body =
                             FileOpen("None", VString(c.args[2]), c.args[3], c.args[4])

\* a task whose openat on a descriptor was refused has sent the request of
\* an openat with AT_FDCWD
C35_Witness ==
    \E t \in Tasks :
        /\ tasks[t].pc = "ipc"
        /\ tasks[t].call.nr = nr.OPENAT
        /\ \E i \in FileOpensSent : wire.up[i].task = t
        /\ tasks[t].last.nr = nr.OPENAT
        /\ tasks[t].last.args[1] = 3
        /\ tasks[t].last.ret = -ENOSYS

-----------------------------------------------------------------------------
(* Properties of the guest's address space *)

MmapReturned == mem.last.op = "mmap_anonymous_noreplace"

\* the mapping the last call asked for, and the one the kernel made
AskedArea ==
    MemArea(mem.last.addr, mem.last.addr + page_round_up(mem.last.length), "")

PlacedArea ==
    MemArea(mem.last.placed, mem.last.placed + page_round_up(mem.last.length), "")

\* the kernel made the mapping, at another address than the one asked for
Moved == mem.last.placed >= 0 /\ mem.last.placed # mem.last.addr

\* C31, as stated: mmap_anonymous_noreplace returns Ok only if the mapping
\* was created exactly at addr; a mapping placed elsewhere is removed with a
\* munmap of the same length and the call returns Err(-EEXIST), so a failed
\* call leaves no new mapping; a failed mmap returns its errno and issues
\* no munmap.
C31_NoreplaceRollback ==
    MmapReturned =>
        /\ mem.last.res.ok =>
               (mem.last.placed = mem.last.addr
                    /\ mem.maps = mem.last.before \cup {AskedArea})
        /\ Moved =>
               /\ Len(mem.last.munmaps) = 1
               /\ mem.last.munmaps[1].addr = mem.last.placed
               /\ mem.last.munmaps[1].length = mem.last.length
               /\ mem.last.res = Err(-EEXIST)
        /\ ~mem.last.res.ok => mem.maps = mem.last.before
        /\ mem.last.placed < 0 =>
               (mem.last.res = Err(mem.last.placed) /\ mem.last.munmaps = <<>>)

\* C31, amended: mmap_anonymous_noreplace returns Ok only if the mapping
\* was created exactly at addr; for a mapping placed elsewhere one munmap of
\* that address and the same length is issued: when it succeeds the call
\* returns Err(-EEXIST) and leaves no new mapping, when it fails the call
\* returns the errno of the munmap and the moved mapping stays; a failed
\* mmap returns its errno, issues no munmap and leaves no new mapping.
C31_NoreplaceRollbackUnlessMunmapFails ==
    MmapReturned =>
        /\ mem.last.res.ok =>
               (mem.last.placed = mem.last.addr
                    /\ mem.last.munmaps = <<>>
                    /\ mem.maps = mem.last.before \cup {AskedArea})
        /\ Moved =>
               /\ Len(mem.last.munmaps) = 1
               /\ mem.last.munmaps[1].addr = mem.last.placed
               /\ mem.last.munmaps[1].length = mem.last.length
               /\ IF mem.last.munmaps[1].res = 0
                  THEN mem.last.res = Err(-EEXIST) /\ mem.maps = mem.last.before
                  ELSE /\ mem.last.res = Err(mem.last.munmaps[1].res)
                       /\ mem.maps = mem.last.before \cup {PlacedArea}
        /\ mem.last.placed < 0 =>
               /\ mem.last.res = Err(mem.last.placed)
               /\ mem.last.munmaps = <<>>
               /\ mem.maps = mem.last.before

\* the kernel has placed a mapping elsewhere and the call has undone it
C31_Witness ==
    /\ MmapReturned
    /\ Moved
    /\ mem.last.munmaps[1].res = 0
    /\ mem.last.res = Err(-EEXIST)
    /\ mem.last.before # {VVarArea, VdsoArea}

\* the area overlaps the vdso, the vvar or the vsyscall area located when
\* the trampoline was created
OverlapsKernelArea(area) ==
    \E k \in {mem.kernel_mem.vdso, mem.kernel_mem.vvar, mem.kernel_mem.vsyscall} :
        k # NoArea /\ area.name = k.name /\ RangesMeet(area, k.start, k.end)

\* C32: unmap_all_userspace_mem terminates, provided every remote munmap it
\* issues succeeds (a failing one panics), and when it returns the guest's
\* mapping list contains only regions that overlap vdso, vvar or vsyscall.
C32_TeardownTerminates ==
    (mem.pc = "teardown") ~>
        \/ mem.pc = "panicked" /\ mem.last.op = "munmap" /\ mem.last.res # 0
        \/ mem.pc = "returned" /\ \A a \in mem.maps : OverlapsKernelArea(a)

\* the teardown has returned after unmapping three areas, one of them a
\* mapping the trampoline made, and the kernel's three areas are left
C32_Witness ==
    /\ mem.pc = "returned"
    /\ Cardinality(mem.issued) >= 3
    /\ \E a \in mem.issued : a.name = ""
    /\ mem.maps = {VVarArea, VdsoArea, VSyscallArea}

\* the areas located when the trampoline was created
LocatedAreas ==
    {k \in {mem.kernel_mem.vdso, mem.kernel_mem.vvar, mem.kernel_mem.vsyscall} :
        k # NoArea}

\* C33: unmap_all_userspace_mem never issues a remote munmap for a region
\* whose addresses overlap the vdso, vvar or vsyscall areas located at
\* trampoline creation, so the vdso, whose syscall instruction the
\* trampoline jumps to, stays mapped as located across the teardown.
C33_KernelAreasKept ==
    /\ \A a \in mem.issued : \A k \in LocatedAreas : ~RangesMeet(a, k.start, k.end)
    /\ mem.pc # "none" => (LocatedAreas \subseteq mem.maps /\ VdsoArea \in LocatedAreas)

\* the teardown has unmapped the area that ends where the vvar area begins,
\* in a guest that has a vsyscall page
C33_Witness ==
    /\ mem.pc \in {"teardown", "returned"}
    /\ mem.last.op = "munmap"
    /\ mem.last.res = 0
    /\ mem.last.area.end = mem.kernel_mem.vvar.start
    /\ mem.kernel_mem.vsyscall = VSyscallArea

-----------------------------------------------------------------------------
(* Properties of the stub's socket *)

\* the messages recv has returned are the first ones written, in order
ReceivedInOrder == sock.got = [i \in 1..Len(sock.got) |-> i]

\* C38: every message the host writes to the IPC socket is eventually
\* returned by Socket::recv, exactly once and in the order written, for
\* every interleaving of the SIGIO handler with recv: recv does not go on
\* returning None while unread bytes stay in the socket, and a message that
\* arrives in two reads is neither lost nor misparsed.
C38_EveryMessageReceived ==
    \A i \in 1..MaxSent :
        (sock.sent >= i) ~> (ReceivedInOrder /\ Len(sock.got) >= i)

====
